---------------------------- MODULE SoftphoneProofs ----------------------------
(***************************************************************************)
(* The refs of the agent's console, and what becomes of the audio it       *)
(* records, under every trial and whatever requests fail: for any number   *)
(* of conversations, handlers and live chunks.                             *)
(***************************************************************************)
EXTENDS Softphone, TLAPS

-----------------------------------------------------------------------------
(* The desk. *)

DeskIsRight == Desk!TypeOK /\ Desk!SessionIsVoice /\ Desk!AssignedIffWorked

\* The part of the invariant that is about the line, the offer and the handlers.
RefInv ==
    /\ TypeOK /\ Desk!SessionIsVoice /\ Desk!AssignedIffWorked
    /\ RefsAreRight /\ GrantsStand
    /\ OneAtATime => LineIsSole /\ TakenInTurn /\ LegIsKnown /\ TalkingCallIsLive

\* What no step of the desk takes back, ...
DeskKeeps ==
    \A c \in Calls :
        /\ assignee[c] = Me => assignee'[c] = Me
        /\ session[c] # "none" => session'[c] # "none"

\* ... and what only a hang-up does.
LinesStayUp ==
    \A c \in Calls :
        /\ Desk!MayControl(c, Me) => Desk!MayControl(c, Me)'
        /\ assignee[c] = Me /\ session[c] \in {"none"} \cup Desk!Live
              => session'[c] \in {"none"} \cup Desk!Live
        /\ session'[c] = "ended" => session[c] = "ended"

USE DEF Desk!lineVars, Desk!presenceVars, Desk!conversationVars

\* A conversation is created, with a session that rings or without.
LEMMA NewRow ==
  ASSUME SoftphoneAssumption, DeskIsRight, NEW c \in Calls,
         \/ \E q \in BOOLEAN : Desk!CreateConversation(c, "chat", q)
         \/ Desk!RingInbound(c)
  PROVE  DeskIsRight' /\ DeskKeeps /\ LinesStayUp
<1> USE DEF DeskIsRight, DeskKeeps, LinesStayUp, Desk!TypeOK, Desk!SessionIsVoice,
            Desk!AssignedIffWorked, Desk!MayControl, Desk!Live, Desk!Enqueue
<1>1. ASSUME NEW q \in BOOLEAN, Desk!CreateConversation(c, "chat", q)
      PROVE  DeskIsRight' /\ DeskKeeps /\ LinesStayUp
  <2>1. DeskIsRight'
    BY <1>1, SoftphoneAssumption DEF Desk!CreateConversation
  <2>2. DeskKeeps /\ LinesStayUp
    BY <1>1, SoftphoneAssumption DEF Desk!CreateConversation
  <2> QED
    BY <2>1, <2>2
<1>2. ASSUME Desk!RingInbound(c)
      PROVE  DeskIsRight' /\ DeskKeeps /\ LinesStayUp
  <2>1. DeskIsRight'
    BY <1>2, SoftphoneAssumption DEF Desk!RingInbound
  <2>2. DeskKeeps /\ LinesStayUp
    BY <1>2, SoftphoneAssumption DEF Desk!RingInbound
  <2> QED
    BY <2>1, <2>2
<1> QED
  BY <1>1, <1>2

LEMMA Registered ==
  ASSUME SoftphoneAssumption, DeskIsRight, NEW c \in Calls, Desk!RegisterLiveInbound(c, Me)
  PROVE  DeskIsRight' /\ DeskKeeps /\ LinesStayUp /\ session'[c] = "ringing"
<1>1. Desk!RingInbound(c)
  BY DEF Desk!RegisterLiveInbound
<1>2. DeskIsRight' /\ DeskKeeps /\ LinesStayUp
  BY <1>1, NewRow
<1>3. session'[c] = "ringing"
  BY <1>1 DEF Desk!RingInbound, DeskIsRight, Desk!TypeOK
<1> QED
  BY <1>2, <1>3

LEMMA Dialled ==
  ASSUME SoftphoneAssumption, DeskIsRight, NEW c \in Calls, Desk!Dial(c, Me)
  PROVE  /\ DeskIsRight' /\ DeskKeeps /\ LinesStayUp
         /\ assignee'[c] = Me /\ Desk!MayControl(c, Me)'
<1> USE DEF DeskIsRight, Desk!TypeOK, Desk!SessionIsVoice, Desk!AssignedIffWorked, Desk!Dial,
            Desk!Occupy
<1>1. DeskIsRight'
  BY SoftphoneAssumption DEF Desk!AgentStatus
<1>2. DeskKeeps /\ LinesStayUp /\ assignee'[c] = Me /\ Desk!MayControl(c, Me)'
  BY SoftphoneAssumption DEF DeskKeeps, LinesStayUp, Desk!MayControl, Desk!Live
<1> QED
  BY <1>1, <1>2

LEMMA Claimed ==
  ASSUME SoftphoneAssumption, DeskIsRight, NEW c \in Calls, Desk!Claim(c, Me)
  PROVE  /\ DeskIsRight' /\ DeskKeeps /\ LinesStayUp
         /\ assignee'[c] = Me /\ session'[c] \in {"none", "active"}
<1> USE DEF DeskIsRight, Desk!TypeOK, Desk!SessionIsVoice, Desk!AssignedIffWorked, Desk!Claim,
            Desk!Occupy
<1>1. DeskIsRight'
  BY SoftphoneAssumption DEF Desk!AgentStatus
<1>2. DeskKeeps /\ LinesStayUp /\ assignee'[c] = Me /\ session'[c] \in {"none", "active"}
  BY SoftphoneAssumption DEF DeskKeeps, LinesStayUp, Desk!MayControl, Desk!Live
<1> QED
  BY <1>1, <1>2

LEMMA Rejected ==
  ASSUME SoftphoneAssumption, DeskIsRight, NEW c \in Calls, Desk!Reject(c, Me)
  PROVE  DeskIsRight' /\ DeskKeeps /\ LinesStayUp
<1> USE DEF DeskIsRight, Desk!TypeOK, Desk!SessionIsVoice, Desk!AssignedIffWorked, Desk!Reject
<1>1. DeskIsRight'
  BY SoftphoneAssumption
<1>2. DeskKeeps /\ LinesStayUp
  BY SoftphoneAssumption DEF DeskKeeps, LinesStayUp, Desk!MayControl, Desk!Live
<1> QED
  BY <1>1, <1>2

LEMMA HungUp ==
  ASSUME SoftphoneAssumption, DeskIsRight, NEW c \in Calls, Desk!HangUp(c, Me)
  PROVE  DeskIsRight' /\ DeskKeeps
<1> USE DEF DeskIsRight, Desk!TypeOK, Desk!SessionIsVoice, Desk!AssignedIffWorked, Desk!HangUp,
            Desk!MayControl, Desk!Live
<1>1. DeskIsRight'
  BY SoftphoneAssumption DEF Desk!AgentStatus
<1>2. DeskKeeps
  BY SoftphoneAssumption DEF DeskKeeps
<1> QED
  BY <1>1, <1>2

LEMMA WrappedUp ==
  ASSUME SoftphoneAssumption, DeskIsRight, NEW c \in Calls, Desk!WrapUp(c)
  PROVE  DeskIsRight' /\ DeskKeeps /\ LinesStayUp
<1> USE DEF DeskIsRight, Desk!TypeOK, Desk!SessionIsVoice, Desk!AssignedIffWorked, Desk!WrapUp
<1>1. DeskIsRight'
  BY SoftphoneAssumption DEF Desk!AgentStatus
<1>2. DeskKeeps /\ LinesStayUp
  BY SoftphoneAssumption DEF DeskKeeps, LinesStayUp, Desk!MayControl, Desk!Live
<1> QED
  BY <1>1, <1>2

LEMMA DeskRests ==
  ASSUME DeskIsRight, UNCHANGED deskVars
  PROVE  DeskIsRight' /\ DeskKeeps /\ LinesStayUp
BY DEF DeskIsRight, Desk!TypeOK, Desk!SessionIsVoice, Desk!AssignedIffWorked, deskVars,
       DeskKeeps, LinesStayUp, Desk!MayControl

LEMMA Rests ==
  ASSUME RefInv, UNCHANGED deskVars
  PROVE  DeskIsRight' /\ DeskKeeps /\ LinesStayUp /\ Desk!TypeOK'
<1>1. DeskIsRight
  BY DEF DeskIsRight, RefInv, TypeOK
<1>2. DeskIsRight' /\ DeskKeeps /\ LinesStayUp
  BY <1>1, DeskRests
<1> QED
  BY <1>2 DEF DeskIsRight

-----------------------------------------------------------------------------
(* The handlers under way. *)

Kinds == {"register", "claim", "reject", "dial", "wrapup", "load", "hangup", "remote", "chunk"}
Places == {"sent", "granted", "refused", "ghost", "fetch", "drain", "put", "clear", "hang",
           "timed", "last", "late"}
Refs == Calls \cup {NoCall}
Voices == Speakers \cup {"none"}

LEMMA OpFacts ==
  ASSUME NEW op, NEW c, NEW at, NEW audio, NEW by
  PROVE  /\ Op(op, c, at, audio, by).op = op /\ Op(op, c, at, audio, by).call = c
         /\ Op(op, c, at, audio, by).at = at /\ Op(op, c, at, audio, by).audio = audio
         /\ Op(op, c, at, audio, by).by = by
         /\ op \in Kinds /\ c \in Calls /\ at \in Places /\ audio \in Refs
               /\ (at \in {"drain", "put"} => audio # NoCall)
               /\ (by = "none" \/ (op \in {"load", "chunk"} /\ by \in Speakers))
               => Op(op, c, at, audio, by) \in OpStep
         /\ op = "segment" /\ {c, audio} \subseteq Calls /\ at \in Places /\ by \in Speakers
               => Op(op, c, at, audio, by) \in OpStep
BY SoftphoneAssumption DEF Op, OpStep, Kinds, Places, Refs, Voices, Speakers

LEMMA OpTypes ==
  ASSUME NEW o \in OpStep
  PROVE  /\ o.op \in Kinds \cup {"segment"} /\ o.call \in Calls /\ o.at \in Places
         /\ o.audio \in Refs /\ o.by \in Voices
         /\ o.op = "segment" => o.audio \in Calls /\ o.by \in Speakers
         /\ o.by # "none" => o.op \in {"load", "segment", "chunk"}
         /\ o.at \in {"drain", "put"} => o.audio \in Calls
         /\ \A at \in Places : (at \in {"drain", "put"} => o.audio # NoCall)
               => Op(o.op, o.call, at, o.audio, o.by) \in OpStep
BY DEF Op, OpStep, Kinds, Places, Refs, Voices, Speakers

LEMMA AskFacts ==
  ASSUME NEW op, NEW c
  PROVE  /\ Ask(op, c).op = op /\ Ask(op, c).call = c /\ Ask(op, c).at = "sent"
         /\ op \in Kinds /\ c \in Calls => Ask(op, c) \in OpStep
BY OpFacts DEF Ask, Places, Refs, Voices

\* Whatever is under way after o moved, was, or is what o has become.
LEMMA MovedFacts ==
  ASSUME ops \subseteq OpStep, NEW o \in ops, NEW at \in Places,
         at \in {"drain", "put"} => o.audio # NoCall
  PROVE  /\ Moved(o, at) \subseteq OpStep /\ Done(o) \subseteq OpStep
         /\ \A q \in Moved(o, at) :
               \/ q \in ops /\ q # o
               \/ q.op = o.op /\ q.call = o.call /\ q.at = at /\ q.audio = o.audio
         /\ \A q \in ops : q = o \/ q \in Moved(o, at)
         /\ \E q \in Moved(o, at) :
               q.op = o.op /\ q.call = o.call /\ q.at = at /\ q.audio = o.audio
         /\ \A q \in Done(o) : q \in ops /\ q # o
         /\ \A q \in ops : q = o \/ q \in Done(o)
<1>1. DEFINE m == Op(o.op, o.call, at, o.audio, o.by)
<1>2. m \in OpStep /\ m.op = o.op /\ m.call = o.call /\ m.at = at /\ m.audio = o.audio
  BY OpTypes, OpFacts
<1>3. Moved(o, at) = (ops \ {o}) \cup {m} /\ Done(o) = ops \ {o}
  BY DEF Moved, Done
<1> HIDE DEF m
<1> QED
  BY <1>2, <1>3

\* The histories of what went wrong.
PastOK == spoilt \subseteq Calls /\ unheeded \subseteq Calls /\ failed \subseteq Calls

LEMMA FailsFacts ==
  ASSUME RefInv, NEW o \in ops, UNCHANGED <<spoilt, unheeded>>,
         UNCHANGED failed \/ \E rest : Fails(o, rest)
  PROVE  PastOK'
<1>1. o.call \in Calls
  BY OpTypes DEF RefInv, TypeOK
<1> QED
  BY <1>1 DEF PastOK, Fails, RefInv, TypeOK

LEMMA SpoilingFacts ==
  ASSUME ops' \subseteq OpStep
  PROVE  Spoiling' \subseteq Calls
<1>1. \A o \in ops' : o.call \in Calls /\ o.audio \in Calls \cup {NoCall}
  BY OpTypes DEF Refs
<1> QED
  BY <1>1 DEF Spoiling

-----------------------------------------------------------------------------
(* Steps that leave the line alone. *)

\* A handler that is no harm to the line: it takes no call, works for the agent,
\* and tells the desk of a hang-up only when there is no leg.
Harmless(q) ==
    /\ ~Takes(q)
    /\ q.op \in {"load", "chunk", "hangup", "remote"} => assignee'[q.call] = Me
    /\ OneAtATime /\ q.op \in {"hangup", "remote"} =>
          /\ \A o \in ops : o.op # "dial"
          /\ phone # NoCall => q.op = "hangup" /\ q.at \notin {"hang", "granted"}

\* A leg goes no further than to be answered, and that if the call is up.
LegsGoOn ==
    \A x \in Calls :
        /\ leg[x] # "none" => leg'[x] # "none"
        /\ Ringing(x)' => Ringing(x)
        /\ Ringing(x) \/ Talking(x) => Ringing(x)' \/ Talking(x)'
        /\ Ringing(x)' \/ Talking(x)' => Ringing(x) \/ Talking(x)
        /\ OneAtATime /\ Talking(x)' => Talking(x) \/ Desk!MayControl(x, Me)

\* The offer stands, or was for a call that has been answered, or is made anew of
\* the one that rings.
OfferGoesOn ==
    \/ pending' = pending
    \/ /\ pending' # NoCall => session[pending'] # "none"
       /\ OneAtATime =>
             /\ phone \in {NoCall, pending'} \/ ~Ringing(phone)' \/ phone \in outbound
             /\ \A q \in ops' : q.op # "claim"

\* A call that is being registered goes on to be, or is on offer.
RegisterGoesOn ==
    OneAtATime /\ (\E q \in ops : q.op = "register") =>
        phone \in {NoCall, pending'} \/ \E q \in ops' : q.op = "register"

LEMMA QuietKeeps ==
  ASSUME SoftphoneAssumption, RefInv, TypeOK', DeskIsRight', DeskKeeps, LinesStayUp,
         UNCHANGED <<phone, outbound>>, LegsGoOn, OfferGoesOn, alive => alive',
         selected' = NoCall \/ assignee'[selected'] = Me,
         \A q \in ops' : q \in ops \/ Harmless(q), RegisterGoesOn
  PROVE  RefInv'
<1>1. RefsAreRight'
  <2>1. phone' # NoCall => Ringing(phone)' \/ Talking(phone)'
    BY DEF RefInv, TypeOK, RefsAreRight, LegsGoOn
  <2>2. pending' # NoCall => session'[pending'] # "none"
    <3>1. pending' \in Calls \cup {NoCall}
      BY DEF TypeOK
    <3> QED
      BY <3>1 DEF RefInv, RefsAreRight, OfferGoesOn, DeskKeeps
  <2>3. \A o \in ops' : o.op \in {"load", "chunk", "hangup", "remote"} => assignee'[o.call] = Me
    <3>1. \A o \in ops : o.call \in Calls
      BY OpTypes DEF RefInv, TypeOK
    <3> QED
      BY <3>1 DEF RefInv, RefsAreRight, DeskKeeps, Harmless
  <2> QED
    BY <2>1, <2>2, <2>3 DEF RefsAreRight, Ringing, Talking
<1>2. GrantsStand'
  <2>1. \A o \in ops : o.call \in Calls
    BY OpTypes DEF RefInv, TypeOK
  <2> QED
    BY <2>1 DEF RefInv, GrantsStand, DeskKeeps, Harmless, Takes
<1>3. SUFFICES ASSUME OneAtATime
               PROVE  LineIsSole' /\ TakenInTurn' /\ LegIsKnown' /\ TalkingCallIsLive'
  BY <1>1, <1>2 DEF RefInv, DeskIsRight, OneAtATime
<1>4. LineIsSole /\ TakenInTurn /\ LegIsKnown /\ TalkingCallIsLive
  BY <1>3 DEF RefInv
<1>5. LineIsSole' /\ TalkingCallIsLive'
  <2>1. outbound \subseteq Calls
    BY DEF RefInv, TypeOK
  <2>2. \A c \in Calls : Ringing(c)' \/ Talking(c)' => phone' = c
    BY <1>4 DEF LineIsSole, LegsGoOn
  <2>3. \A c \in outbound' : leg'[c] # "none" /\ (Ringing(c)' => Desk!MayControl(c, Me)')
    BY <1>4, <2>1 DEF LineIsSole, LegsGoOn, LinesStayUp
  <2>4. \A c \in Calls : Talking(c)' => Desk!MayControl(c, Me)'
    BY <1>3, <1>4 DEF TalkingCallIsLive, LegsGoOn, LinesStayUp
  <2> QED
    BY <2>2, <2>3, <2>4 DEF LineIsSole, TalkingCallIsLive, Ringing, Talking, Desk!MayControl
<1>6. TakenInTurn'
  <2>1. \A o \in ops : o.call \in Calls
    BY OpTypes DEF RefInv, TypeOK
  <2>2. \A o, q \in ops' : Takes(o) /\ Takes(q) => o = q
    BY <1>4 DEF TakenInTurn, Harmless
  <2>3. \A o, q \in ops' : o.op = "dial" => q.op \notin {"hangup", "remote"}
    BY <1>3, <1>4 DEF TakenInTurn, Harmless, Takes
  <2>4. \A o \in ops' : o.op = "dial" /\ o.at = "granted" => Desk!MayControl(o.call, Me)'
    BY <1>4, <2>1 DEF TakenInTurn, Harmless, Takes, LinesStayUp
  <2> QED
    BY <2>2, <2>3, <2>4 DEF TakenInTurn, Takes, Desk!MayControl
<1>7. LegIsKnown'
  <2>1. SUFFICES ASSUME phone # NoCall
                 PROVE  LegIsKnown'
    BY DEF LegIsKnown
  <2>2. \A o \in ops :
           /\ o.op \notin {"remote", "dial"}
           /\ o.op = "hangup" => o.at \notin {"hang", "granted"}
           /\ o.op = "register" => o.call = phone /\ alive /\ o.at # "ghost"
           /\ o.op = "claim" /\ o.at \in {"granted", "fetch"} =>
                 session[o.call] \in {"none"} \cup Desk!Live
           /\ o.op = "claim" /\ o.at = "fetch" => pending = o.call
    BY <1>4, <2>1 DEF LegIsKnown
  <2>3. Ringing(phone) /\ phone \notin outbound =>
           pending = phone \/ \E o \in ops : o.op = "register"
    BY <1>4, <2>1 DEF LegIsKnown
  <2>4. \A o \in ops' :
           /\ o.op \notin {"remote", "dial"}
           /\ o.op = "hangup" => o.at \notin {"hang", "granted"}
           /\ o.op = "register" => o.call = phone' /\ alive' /\ o.at # "ghost"
    BY <1>3, <2>1, <2>2 DEF Harmless, Takes
  <2>5. ASSUME NEW o \in ops', o.op = "claim"
        PROVE  /\ o.at \in {"granted", "fetch"} => session'[o.call] \in {"none"} \cup Desk!Live
               /\ o.at = "fetch" => pending' = o.call
    <3>1. o \in ops /\ o.call \in Calls
      BY <2>5, OpTypes DEF Harmless, Takes, RefInv, TypeOK
    <3>2. o.at \in {"granted", "fetch"} => assignee[o.call] = Me
      BY <2>5, <3>1 DEF RefInv, GrantsStand
    <3>3. o.at \in {"granted", "fetch"} => session'[o.call] \in {"none"} \cup Desk!Live
      BY <2>2, <2>5, <3>1, <3>2 DEF LinesStayUp
    <3>4. pending' = pending
      BY <1>3, <2>5 DEF OfferGoesOn
    <3> QED
      BY <2>2, <2>5, <3>1, <3>3, <3>4
  <2>6. Ringing(phone)' /\ phone \notin outbound =>
           pending' = phone \/ \E o \in ops' : o.op = "register"
    <3>1. phone \in Calls
      BY <2>1 DEF RefInv, TypeOK
    <3>2. Ringing(phone)' => Ringing(phone)
      BY <3>1 DEF LegsGoOn, Ringing
    <3>3. Ringing(phone)' /\ phone \notin outbound => pending' \in {pending, phone}
      BY <1>3, <2>1 DEF OfferGoesOn
    <3> QED
      BY <1>3, <2>1, <2>3, <3>2, <3>3 DEF RegisterGoesOn
  <2> QED
    BY <2>4, <2>5, <2>6 DEF LegIsKnown, Ringing, Desk!Live
<1> QED
  BY <1>5, <1>6, <1>7
-----------------------------------------------------------------------------
(* Steps after which the phone has no session. *)

\* A handler that the end of a leg leaves behind.
LeftBehind(q) ==
    /\ ~Takes(q)
    /\ q.op \in {"load", "chunk", "hangup", "remote"} => assignee[q.call] = Me
    /\ OneAtATime /\ q.op \in {"hangup", "remote"} => \A o \in ops : o.op # "dial"

LEMMA EndKeeps ==
  ASSUME SoftphoneAssumption, RefInv, TypeOK', UNCHANGED <<deskVars, outbound, selected>>,
         phone' = NoCall, pending' \in {pending, NoCall},
         \/ phone = NoCall /\ UNCHANGED leg
         \/ \E c \in Calls : (Ringing(c) \/ Talking(c)) /\ leg' = [leg EXCEPT ![c] = "over"],
         \A q \in ops' : q \in ops \/ LeftBehind(q)
  PROVE  RefInv'
<1>0. DeskIsRight' /\ DeskKeeps /\ LinesStayUp
  <2>1. DeskIsRight
    BY DEF DeskIsRight, RefInv, TypeOK
  <2> QED
    BY <2>1, DeskRests
<1>1. RefsAreRight'
  BY DEF RefInv, RefsAreRight, deskVars, LeftBehind, TypeOK
<1>2. GrantsStand'
  BY DEF RefInv, GrantsStand, deskVars, LeftBehind, Takes
<1>3. SUFFICES ASSUME OneAtATime
               PROVE  LineIsSole' /\ TakenInTurn' /\ LegIsKnown' /\ TalkingCallIsLive'
  BY <1>0, <1>1, <1>2 DEF RefInv, DeskIsRight, OneAtATime
<1>4. LineIsSole /\ TakenInTurn /\ LegIsKnown /\ TalkingCallIsLive
  BY <1>3 DEF RefInv
<1>5. \A x \in Calls : ~Ringing(x)' /\ ~Talking(x)' /\ (leg[x] # "none" => leg'[x] # "none")
  <2>1. CASE phone = NoCall /\ UNCHANGED leg
    BY <1>4, <2>1, SoftphoneAssumption DEF LineIsSole, Ringing, Talking
  <2>2. ASSUME NEW c \in Calls, Ringing(c) \/ Talking(c), leg' = [leg EXCEPT ![c] = "over"]
        PROVE  \A x \in Calls :
                  ~Ringing(x)' /\ ~Talking(x)' /\ (leg[x] # "none" => leg'[x] # "none")
    <3>1. \A x \in Calls : Ringing(x) \/ Talking(x) => x = c
      BY <1>4, <2>2 DEF LineIsSole
    <3> QED
      BY <2>2, <3>1 DEF RefInv, TypeOK, Ringing, Talking
  <2> QED
    BY <2>1, <2>2
<1>6. LineIsSole' /\ TalkingCallIsLive' /\ LegIsKnown'
  <2>1. outbound \subseteq Calls
    BY DEF RefInv, TypeOK
  <2>2. \A c \in outbound' : leg'[c] # "none" /\ ~Ringing(c)'
    BY <1>4, <1>5, <2>1 DEF LineIsSole
  <2>3. LineIsSole'
    BY <1>5, <2>2 DEF LineIsSole, Ringing, Talking
  <2>4. TalkingCallIsLive'
    BY <1>5 DEF TalkingCallIsLive, Talking
  <2>5. LegIsKnown'
    BY DEF LegIsKnown
  <2> QED
    BY <2>3, <2>4, <2>5
<1>7. TakenInTurn'
  <2>1. \A o, q \in ops' : Takes(o) /\ Takes(q) => o = q
    BY <1>4 DEF TakenInTurn, LeftBehind
  <2>2. \A o, q \in ops' : o.op = "dial" => q.op \notin {"hangup", "remote"}
    BY <1>3, <1>4 DEF TakenInTurn, LeftBehind, Takes
  <2>3. \A o \in ops' : o.op = "dial" /\ o.at = "granted" => Desk!MayControl(o.call, Me)'
    BY <1>4 DEF TakenInTurn, LeftBehind, Takes, Desk!MayControl, deskVars
  <2> QED
    BY <2>1, <2>2, <2>3 DEF TakenInTurn, Takes, Desk!MayControl
<1> QED
  BY <1>6, <1>7

\* The handler that finishes a call, and the segments it waits for.
LEMMA FinishSet ==
  ASSUME RefInv, NEW op \in {"hangup", "remote"}, NEW c \in Calls
  PROVE  /\ Finish(op, c) \subseteq OpStep
         /\ \A q \in Finish(op, c) : q.op \in {op, "segment"} /\ (q.op = op => q.call = c)
<1> DEFINE m == Op(op, c, IF capture = NoCall THEN "hang" ELSE "drain", capture, "none")
           last == {Op("segment", capture, "last", capture, s) : s \in rolling}
<1>1. capture \in Refs /\ rolling \subseteq Speakers /\ (capture = NoCall => rolling = {})
  BY DEF RefInv, TypeOK, Refs
<1>2. m \in OpStep /\ m.op = op /\ m.call = c
  BY <1>1, OpFacts DEF Kinds, Places, Voices
<1>3. \A q \in last : q \in OpStep /\ q.op = "segment"
  <2>1. ASSUME NEW s \in rolling
        PROVE  LET q == Op("segment", capture, "last", capture, s)
               IN  q \in OpStep /\ q.op = "segment"
    <3>1. capture \in Calls /\ s \in Speakers
      BY <1>1 DEF Refs
    <3> QED
      BY <3>1, OpFacts DEF Places
  <2> QED
    BY <2>1
<1>4. Finish(op, c) = {m} \cup last
  BY DEF Finish
<1> HIDE DEF m, last
<1> QED
  BY <1>2, <1>3, <1>4

LEMMA OnEndedFacts ==
  ASSUME RefInv, NEW pend \in Refs, NEW end \in BOOLEAN, NEW hand \in SUBSET OpStep
  PROVE  /\ OpsOnEnd(pend, end, hand) \subseteq OpStep
         /\ \A q \in OpsOnEnd(pend, end, hand) :
               \/ q \in hand
               \/ q.op \in {"reject", "segment"}
               \/ q.op = "remote" /\ selected \in Calls /\ q.call = selected
<1> DEFINE rejects == {Ask("reject", c) : c \in IF end THEN {} ELSE {pend} \ {NoCall}}
<1>1. OpsOnEnd(pend, end, hand)
         = hand \cup rejects
              \cup (IF FinishesSelected(pend, end) THEN Finish("remote", selected) ELSE {})
  BY DEF OpsOnEnd
<1>2. \A q \in rejects : q \in OpStep /\ q.op = "reject"
  <2>1. ASSUME NEW c \in IF end THEN {} ELSE {pend} \ {NoCall}
        PROVE  Ask("reject", c) \in OpStep /\ Ask("reject", c).op = "reject"
    <3>1. c \in Calls
      BY <2>1 DEF Refs
    <3> QED
      BY <3>1, AskFacts DEF Kinds
  <2> QED
    BY <2>1
<1>3. FinishesSelected(pend, end) => selected \in Calls
  BY DEF FinishesSelected, RefInv, TypeOK
<1>4. selected \in Calls =>
         /\ Finish("remote", selected) \subseteq OpStep
         /\ \A q \in Finish("remote", selected) :
               q.op \in {"remote", "segment"} /\ (q.op = "remote" => q.call = selected)
  BY FinishSet
<1> HIDE DEF rejects
<1> QED
  BY <1>1, <1>2, <1>3, <1>4

\* What is left alone whoever ends a leg.
atEnd == <<deskVars, outbound, selected, voice, recording, taped, transcript, failed>>

\* A leg ends, whoever ended it.
LEMMA LegEndsKeeps ==
  ASSUME SoftphoneAssumption, RefInv, NEW c \in Calls, Ringing(c) \/ Talking(c),
         NEW pend \in {pending, NoCall}, NEW end \in BOOLEAN,
         NEW hand \in SUBSET OpStep, \A q \in hand : q \in ops \/ LeftBehind(q),
         LegEnds(c, pend, end, hand), spoilt' = spoilt \cup Spoiling', UNCHANGED atEnd
  PROVE  RefInv'
<1>1. pend \in Refs
  BY DEF RefInv, TypeOK, Refs
<1>2. /\ phone' = NoCall /\ leg' = [leg EXCEPT ![c] = "over"]
      /\ alive' = FALSE /\ ending' = FALSE /\ pending' \in {pending, NoCall}
      /\ \/ capture' = NoCall /\ rolling' = {}
         \/ UNCHANGED <<capture, rolling>>
      /\ ops' = OpsOnEnd(pend, end, hand) /\ unheeded' \subseteq unheeded \cup {c}
  BY DEF LegEnds, OnEnded, Heeding
<1>3. TypeOK'
  <2>1. ops' \subseteq OpStep
    BY <1>1, <1>2, OnEndedFacts
  <2>2. spoilt' \subseteq Calls
    BY <2>1, SpoilingFacts DEF RefInv, TypeOK
  <2>3. Desk!TypeOK'
    BY Rests DEF atEnd
  <2>4. capture' \in Calls \cup {NoCall}
        /\ rolling' \subseteq IF capture' = NoCall THEN {} ELSE Speakers
    BY <1>2 DEF RefInv, TypeOK
  <2>5. leg' \in [Calls -> {"none", "ringing", "answered", "up", "over"}]
    BY <1>2 DEF RefInv, TypeOK
  <2>6. {phone', selected', pending', capture'} \subseteq Calls \cup {NoCall}
    BY <1>2, <2>4 DEF RefInv, TypeOK, atEnd
  <2>7. unheeded' \subseteq Calls /\ failed' \subseteq Calls
    BY <1>2 DEF RefInv, TypeOK, atEnd
  <2>8. /\ outbound' \subseteq Calls /\ taped' \subseteq Calls
        /\ recording' \in [Calls -> Calls \cup {NoCall}]
        /\ transcript' \in [Calls -> SUBSET (Calls \cup {NoCall})]
        /\ voice' \in {"null", "live", "ended"}
    BY DEF RefInv, TypeOK, atEnd
  <2> QED
    BY <1>2, <2>1, <2>2, <2>3, <2>4, <2>5, <2>6, <2>7, <2>8 DEF TypeOK
<1>4. OneAtATime => \A o \in ops : o.op # "dial"
  BY SoftphoneAssumption DEF RefInv, LineIsSole, LegIsKnown
<1>5. \A q \in ops' : q \in ops \/ LeftBehind(q)
  <2>1. selected \in Calls => assignee[selected] = Me
    BY SoftphoneAssumption DEF RefInv, RefsAreRight
  <2> QED
    BY <1>1, <1>2, <1>4, <2>1, OnEndedFacts DEF LeftBehind, Takes
<1> QED
  BY <1>2, <1>3, <1>5, EndKeeps DEF atEnd

LEMMA TerminateKeeps ==
  ASSUME SoftphoneAssumption, RefInv,
         NEW pend \in {pending, NoCall}, NEW live \in BOOLEAN, NEW end \in BOOLEAN,
         NEW hand \in SUBSET OpStep, \A q \in hand : q \in ops \/ LeftBehind(q),
         Terminate(pend, live, end, hand), spoilt' = spoilt \cup Spoiling', UNCHANGED atEnd
  PROVE  RefInv'
<1>1. CASE phone # NoCall
  <2>1. phone \in Calls /\ (Ringing(phone) \/ Talking(phone))
    BY <1>1 DEF RefInv, TypeOK, RefsAreRight
  <2>2. LegEnds(phone, pend, end, hand)
    BY <1>1 DEF Terminate
  <2> QED
    BY <2>1, <2>2, LegEndsKeeps
<1>2. CASE phone = NoCall
  <2>1. /\ pending' = pend /\ alive' = live /\ ending' = end /\ ops' = hand
        /\ UNCHANGED <<leg, phone, capture, rolling, unheeded>>
    BY <1>2 DEF Terminate
  <2>2. TypeOK'
    <3>1. spoilt' \subseteq Calls
      BY <2>1, SpoilingFacts DEF RefInv, TypeOK
    <3>2. Desk!TypeOK'
      BY Rests DEF atEnd
    <3> QED
      BY <2>1, <3>1, <3>2 DEF RefInv, TypeOK, atEnd
  <2> QED
    BY <1>2, <2>1, <2>2, EndKeeps DEF atEnd
<1> QED
  BY <1>1, <1>2

-----------------------------------------------------------------------------
(* Steps in which a call is being taken. *)

\* Before it is taken, nothing else is under way but live segments and chunks.
LEMMA SettledFacts ==
  ASSUME RefInv, Settled, OneAtATime, NEW q \in ops
  PROVE  q.op \in {"chunk", "load", "segment"} /\ ~Takes(q)
<1>1. q \in Chunks /\ q \in OpStep
  BY DEF Settled, OneAtATime, RefInv, TypeOK
<1>2. q.by # "none"
  BY <1>1 DEF Chunks
<1> QED
  BY <1>1, <1>2, OpTypes DEF Takes

\* The agent starts to take a call.
LEMMA StartKeeps ==
  ASSUME SoftphoneAssumption, RefInv, TypeOK', Settled,
         NEW m, m.op \in {"claim", "dial"}, m.at = "sent", m.op = "dial" => phone = NoCall,
         ops' = ops \cup {m},
         UNCHANGED <<deskVars, sipVars, refVars>>
  PROVE  RefInv'
<1>0. DeskIsRight' /\ DeskKeeps /\ LinesStayUp
  <2>1. DeskIsRight
    BY DEF DeskIsRight, RefInv, TypeOK
  <2> QED
    BY <2>1, DeskRests
<1>1. RefsAreRight' /\ GrantsStand'
  BY DEF RefInv, RefsAreRight, GrantsStand, deskVars, sipVars, refVars, Ringing, Talking
<1>2. SUFFICES ASSUME OneAtATime
               PROVE  LineIsSole' /\ TakenInTurn' /\ LegIsKnown' /\ TalkingCallIsLive'
  BY <1>0, <1>1 DEF RefInv, DeskIsRight, OneAtATime
<1>3. LineIsSole /\ TakenInTurn /\ LegIsKnown /\ TalkingCallIsLive
  BY <1>2 DEF RefInv
<1>4. \A q \in ops : q.op \in {"chunk", "load", "segment"} /\ ~Takes(q)
  BY <1>2, SettledFacts
<1>5. LineIsSole' /\ TalkingCallIsLive'
  <2>1. LineIsSole'
    BY <1>3 DEF LineIsSole, Ringing, Talking, Desk!MayControl, deskVars, sipVars
  <2>2. TalkingCallIsLive'
    BY <1>3 DEF TalkingCallIsLive, Talking, Desk!MayControl, deskVars, sipVars
  <2> QED
    BY <2>1, <2>2
<1>6. TakenInTurn'
  <2>1. \A q \in ops' : q = m \/ (q.op \in {"chunk", "load", "segment"} /\ ~Takes(q))
    BY <1>4
  <2> QED
    BY <2>1 DEF TakenInTurn, Takes
<1>7. LegIsKnown'
  BY <1>3, <1>4 DEF LegIsKnown, Ringing, deskVars, sipVars, refVars
<1> QED
  BY <1>5, <1>6, <1>7

\* The handler that takes a call goes on, the line left alone.
LEMMA TakerKeeps ==
  ASSUME SoftphoneAssumption, RefInv, TypeOK', DeskIsRight', DeskKeeps, LinesStayUp,
         UNCHANGED <<sipVars, pending, alive, ending>>,
         selected' = NoCall \/ assignee'[selected'] = Me,
         NEW o \in ops, Takes(o), NEW m, m.op = o.op, m.call = o.call,
         \A q \in ops' : (q \in ops /\ q # o) \/ q = m \/ Harmless(q), m \in ops',
         m.op \in {"claim", "dial"} /\ m.at \in {"granted", "fetch"} => assignee'[m.call] = Me,
         m.op = "register" /\ m.at = "granted" => session'[m.call] # "none",
         OneAtATime /\ phone # NoCall /\ m.op = "register" => m.at # "ghost",
         m.op = "dial" /\ m.at = "granted" => Desk!MayControl(m.call, Me)',
         OneAtATime /\ phone # NoCall /\ m.op = "claim" /\ m.at \in {"granted", "fetch"} =>
             session'[m.call] \in {"none"} \cup Desk!Live,
         m.op = "claim" /\ m.at = "fetch" => pending = m.call
  PROVE  RefInv'
<1>0. \A q \in ops : q.call \in Calls
  BY OpTypes DEF RefInv, TypeOK
<1>1. RefsAreRight'
  <2>1. \A q \in ops' : q.op \in {"load", "chunk", "hangup", "remote"} => assignee'[q.call] = Me
    BY <1>0 DEF RefInv, RefsAreRight, DeskKeeps, Harmless, Takes
  <2>2. phone' # NoCall => Ringing(phone)' \/ Talking(phone)'
    BY DEF RefInv, RefsAreRight, Ringing, Talking, sipVars
  <2>3. pending' # NoCall => session'[pending'] # "none"
    BY DEF RefInv, TypeOK, RefsAreRight, DeskKeeps
  <2> QED
    BY <2>1, <2>2, <2>3 DEF RefsAreRight, Ringing, Talking
<1>2. GrantsStand'
  BY <1>0 DEF RefInv, GrantsStand, DeskKeeps, Harmless, Takes
<1>3. SUFFICES ASSUME OneAtATime
               PROVE  LineIsSole' /\ TakenInTurn' /\ LegIsKnown' /\ TalkingCallIsLive'
  BY <1>1, <1>2 DEF RefInv, DeskIsRight, OneAtATime
<1>4. LineIsSole /\ TakenInTurn /\ LegIsKnown /\ TalkingCallIsLive
  BY <1>3 DEF RefInv
<1>5. LineIsSole' /\ TalkingCallIsLive'
  <2>1. outbound \subseteq Calls
    BY DEF RefInv, TypeOK
  <2>2. \A c \in outbound : Ringing(c) => Desk!MayControl(c, Me)'
    BY <1>4, <2>1 DEF LineIsSole, LinesStayUp
  <2>3. \A c \in Calls : Talking(c) => Desk!MayControl(c, Me)'
    BY <1>4 DEF TalkingCallIsLive, LinesStayUp
  <2> QED
    BY <1>4, <2>2, <2>3 DEF LineIsSole, TalkingCallIsLive, Ringing, Talking, Desk!MayControl,
       sipVars
<1>6. TakenInTurn'
  <2>1. \A q \in ops' : q = m \/ ~Takes(q)
    BY <1>4 DEF TakenInTurn, Harmless
  <2>2. \A p, q \in ops' : Takes(p) /\ Takes(q) => p = q
    BY <2>1
  <2>3. \A p, q \in ops' : p.op = "dial" => q.op \notin {"hangup", "remote"}
    BY <1>3, <1>4, <2>1 DEF TakenInTurn, Harmless, Takes
  <2>4. \A p \in ops' : p.op = "dial" /\ p.at = "granted" => Desk!MayControl(p.call, Me)'
    BY <2>1 DEF Takes
  <2> QED
    BY <2>2, <2>3, <2>4 DEF TakenInTurn, Takes, Desk!MayControl
<1>7. LegIsKnown'
  <2>1. SUFFICES ASSUME phone # NoCall
                 PROVE  LegIsKnown'
    BY DEF LegIsKnown, sipVars
  <2>2. /\ \A q \in ops :
              /\ q.op \notin {"remote", "dial"}
              /\ q.op = "hangup" => q.at \notin {"hang", "granted"}
              /\ q.op = "register" => q.call = phone /\ alive /\ q.at # "ghost"
        /\ Ringing(phone) /\ phone \notin outbound =>
              pending = phone \/ \E q \in ops : q.op = "register"
    BY <1>4, <2>1 DEF LegIsKnown
  <2>3. \A q \in ops' : q = m \/ ~Takes(q)
    BY <1>4 DEF TakenInTurn, Harmless
  <2>4. \A q \in ops' :
           /\ q.op \notin {"remote", "dial"}
           /\ q.op = "hangup" => q.at \notin {"hang", "granted"}
           /\ q.op = "register" => q.call = phone' /\ alive' /\ q.at # "ghost"
           /\ q.op = "claim" /\ q.at \in {"granted", "fetch"} =>
                 session'[q.call] \in {"none"} \cup Desk!Live
           /\ q.op = "claim" /\ q.at = "fetch" => pending' = q.call
    <3>1. ASSUME NEW q \in ops', q # m
          PROVE  /\ ~Takes(q) /\ q.op # "remote"
                 /\ q.op = "hangup" => q.at \notin {"hang", "granted"}
      BY <1>3, <2>1, <2>2, <2>3, <3>1 DEF Harmless
    <3>2. /\ m.op \in {"register", "claim"}
          /\ m.op = "register" => m.call = phone' /\ alive' /\ m.at # "ghost"
      BY <1>3, <2>1, <2>2 DEF Takes, sipVars
    <3>3. m.op = "claim" =>
             /\ m.at \in {"granted", "fetch"} => session'[m.call] \in {"none"} \cup Desk!Live
             /\ m.at = "fetch" => pending' = m.call
      BY <1>3, <2>1
    <3> QED
      BY <3>1, <3>2, <3>3 DEF Takes
  <2>5. (\E q \in ops : q.op = "register") => \E q \in ops' : q.op = "register"
    <3>1. \A q \in ops : q.op = "register" => q = o
      BY <1>4 DEF TakenInTurn, Takes
    <3> QED
      BY <3>1
  <2> QED
    BY <2>2, <2>4, <2>5 DEF LegIsKnown, Ringing, Desk!Live, sipVars
<1> QED
  BY <1>5, <1>6, <1>7
-----------------------------------------------------------------------------
(* The actions, one by one: those that leave the line alone ... *)

\* The page works on, and no leg, offer or taking of a call is touched.
LEMMA CalmKeeps ==
  ASSUME SoftphoneAssumption, RefInv, TypeOK', DeskIsRight', DeskKeeps, LinesStayUp,
         UNCHANGED <<sipVars, pending, alive>>,
         selected' \in {selected, NoCall} \/ assignee'[selected'] = Me,
         \A q \in ops' : q \in ops \/ Harmless(q),
         \A q \in ops : q.op = "register" => q \in ops'
  PROVE  RefInv'
<1>1. LegsGoOn /\ OfferGoesOn /\ UNCHANGED <<phone, outbound>> /\ (alive => alive')
  BY DEF LegsGoOn, OfferGoesOn, Ringing, Talking, sipVars
<1>2. RegisterGoesOn
  BY DEF RegisterGoesOn
<1>3. selected' = NoCall \/ assignee'[selected'] = Me
  BY DEF RefInv, TypeOK, RefsAreRight, DeskKeeps
<1> QED
  BY <1>1, <1>2, <1>3, QuietKeeps

\* What a call's finishing has found goes on while it does.
LEMMA FinishFacts ==
  ASSUME RefInv, NEW o \in ops, o.op \in {"hangup", "remote"}
  PROVE  /\ o \in OpStep /\ o.call \in Calls /\ o.audio \in Refs
         /\ assignee[o.call] = Me
         /\ OneAtATime =>
               /\ \A q \in ops : q.op # "dial"
               /\ phone # NoCall => o.op = "hangup" /\ o.at \notin {"hang", "granted"}
<1>1. o \in OpStep /\ o.call \in Calls /\ o.audio \in Refs
  BY OpTypes DEF RefInv, TypeOK
<1> QED
  BY <1>1 DEF RefInv, RefsAreRight, TakenInTurn, LegIsKnown

\* ... and it takes its next step.
LEMMA FinishMoves ==
  ASSUME RefInv, NEW o \in ops, o.op \in {"hangup", "remote"}, DeskKeeps,
         NEW at \in Places \ {"hang", "granted"}, at \in {"drain", "put"} => o.audio # NoCall
  PROVE  /\ Moved(o, at) \subseteq OpStep
         /\ \A q \in Moved(o, at) : q \in ops \/ Harmless(q)
         /\ \A q \in ops : q.op = "register" => q \in Moved(o, at)
<1>1. ops \subseteq OpStep
  BY DEF RefInv, TypeOK
<1> QED
  BY <1>1, MovedFacts, FinishFacts DEF Harmless, Takes, DeskKeeps

\* The handler o ends, and nothing comes of it.
LEMMA DoneKeeps ==
  ASSUME SoftphoneAssumption, RefInv, NEW o \in ops, o.op # "register", ops' = Done(o),
         DeskIsRight', DeskKeeps, LinesStayUp, PastOK',
         UNCHANGED <<sipVars, pending, alive, ending, tapeVars>>,
         selected' \in {selected, NoCall}, voice' \in {"null", "live", "ended"}
  PROVE  RefInv'
<1>1. TypeOK'
  <2>1. ops' \subseteq OpStep /\ selected' \in Calls \cup {NoCall}
    BY DEF RefInv, TypeOK, Done
  <2> QED
    BY <2>1 DEF RefInv, TypeOK, DeskIsRight, PastOK, sipVars, tapeVars
<1>2. /\ \A q \in ops : q.op = "register" => q \in ops'
      /\ \A q \in ops' : q \in ops
  BY DEF Done
<1> QED
  BY <1>1, <1>2, CalmKeeps

LEMMA LoadedKeeps ==
  ASSUME SoftphoneAssumption, RefInv, NEW o \in ops, Loaded(o)
  PROVE  RefInv'
<1>1. /\ o.op = "load" /\ ops' = Done(o) /\ voice' \in {"null", "live", "ended"}
      /\ UNCHANGED <<sipVars, pending, alive, ending, selected, tapeVars>> /\ UNCHANGED deskVars
  BY DEF Loaded, Fails, RefInv, TypeOK
<1>2. PastOK'
  BY FailsFacts DEF Loaded
<1> QED
  BY <1>1, <1>2, Rests, DoneKeeps

LEMMA FetchFailsKeeps ==
  ASSUME SoftphoneAssumption, RefInv, NEW o \in ops, FetchFails(o)
  PROVE  RefInv'
<1>1. /\ o.op = "claim" /\ ops' = Done(o) /\ UNCHANGED <<deskVars, sipVars, refVars, tapeVars>>
  BY DEF FetchFails, Fails, IsAt
<1>2. PastOK'
  BY FailsFacts DEF FetchFails
<1>3. voice' \in {"null", "live", "ended"}
  BY <1>1 DEF RefInv, TypeOK, refVars
<1> QED
  BY <1>1, <1>2, <1>3, Rests, DoneKeeps DEF refVars

\* What is sent, or loaded, for the conversation selected now.
LEMMA ForSelectedFacts ==
  ASSUME RefInv, NEW o \in ops, NEW op \in {"load", "chunk"}, NEW at \in Places,
         at \in {"drain", "put"} => o.audio # NoCall
  PROVE  \A q \in ForSelected(op, at, o) : q \in OpStep /\ q.op = op /\ assignee[q.call] = Me
<1>1. o.audio \in Refs /\ (o.by = "none" \/ o.by \in Speakers)
  BY OpTypes DEF RefInv, TypeOK, Voices
<1>2. ASSUME NEW c \in {selected} \ {NoCall}
      PROVE  LET q == Op(op, c, at, o.audio, o.by)
             IN  q \in OpStep /\ q.op = op /\ assignee[q.call] = Me
  <2>1. c \in Calls /\ assignee[c] = Me
    BY <1>2 DEF RefInv, TypeOK, RefsAreRight
  <2> QED
    BY <1>1, <2>1, OpFacts DEF Kinds
<1> QED
  BY <1>2 DEF ForSelected

\* A handler ends, the line left alone, and what comes of it is sent for the selected.
LEMMA FollowedKeeps ==
  ASSUME SoftphoneAssumption, RefInv, TypeOK', NEW o \in ops, o.op # "register",
         UNCHANGED <<deskVars, sipVars, refVars>>,
         NEW op \in {"load", "chunk"}, NEW at \in Places,
         at \in {"drain", "put"} => o.audio # NoCall,
         ops' \in {Done(o) \cup ForSelected(op, at, o), Done(o)}
  PROVE  RefInv'
<1>1. \A q \in ops' : q \in ops \/ (q.op = op /\ assignee[q.call] = Me)
  BY ForSelectedFacts DEF Done
<1>2. \A q \in ops' : q \in ops \/ Harmless(q)
  BY <1>1 DEF Harmless, Takes, deskVars
<1>3. \A q \in ops : q.op = "register" => q \in ops'
  BY DEF Done
<1> QED
  BY <1>2, <1>3, Rests, CalmKeeps DEF refVars

LEMMA ChunkServedKeeps ==
  ASSUME SoftphoneAssumption, RefInv, NEW o \in ops, ChunkServed(o)
  PROVE  RefInv'
<1>1. /\ o.op = "chunk" /\ o.call \in Calls /\ o.audio \in Calls \cup {NoCall}
      /\ o.at \in Places /\ (o.at \in {"drain", "put"} => o.audio # NoCall)
  BY OpTypes, SoftphoneAssumption DEF RefInv, TypeOK, ChunkServed, Refs
<1>2. /\ UNCHANGED <<deskVars, sipVars, refVars, recording, capture, rolling, taped, pastVars>>
      /\ ops' \in {Done(o) \cup ForSelected("load", o.at, o), Done(o)}
      /\ transcript' \in {transcript, [transcript EXCEPT ![o.call] = @ \cup {o.audio}]}
  BY DEF ChunkServed
<1>3. ops' \subseteq OpStep
  BY <1>1, <1>2, ForSelectedFacts DEF Done, RefInv, TypeOK
<1>4. transcript' \in [Calls -> SUBSET (Calls \cup {NoCall})]
  BY <1>1, <1>2 DEF RefInv, TypeOK
<1>5. TypeOK'
  BY <1>2, <1>3, <1>4, Rests DEF RefInv, TypeOK, sipVars, refVars, pastVars
<1> QED
  BY <1>1, <1>2, <1>5, FollowedKeeps

LEMMA SegmentEndsKeeps ==
  ASSUME SoftphoneAssumption, RefInv, NEW s \in Speakers, SegmentEnds(s)
  PROVE  RefInv'
<1> DEFINE m == Op("segment", capture, "timed", capture, s)
<1>1. /\ s \in rolling /\ rolling' = rolling \ {s} /\ ops' = ops \cup {m}
      /\ UNCHANGED <<deskVars, sipVars, refVars, recording, capture, taped, transcript, pastVars>>
  BY DEF SegmentEnds
<1>2. capture \in Calls
  BY <1>1 DEF RefInv, TypeOK
<1>3. m \in OpStep /\ m.op = "segment"
  BY <1>2, OpFacts DEF Places
<1> HIDE DEF m
<1>4. TypeOK'
  BY <1>1, <1>3, Rests DEF RefInv, TypeOK, sipVars, refVars, pastVars
<1>5. \A q \in ops' : q \in ops \/ Harmless(q)
  BY <1>1, <1>3 DEF Harmless, Takes
<1> QED
  BY <1>1, <1>4, <1>5, Rests, CalmKeeps DEF refVars

LEMMA SegmentStopsKeeps ==
  ASSUME SoftphoneAssumption, RefInv, NEW o \in ops, SegmentStops(o)
  PROVE  RefInv'
<1>1. /\ o.op = "segment" /\ o.audio \in Calls /\ o.by \in Speakers
      /\ Pending(o) \in Places \ {"drain", "put"}
  BY OpTypes DEF SegmentStops, RefInv, TypeOK, Pending, Places
<1>2. /\ UNCHANGED <<deskVars, sipVars, refVars, recording, capture, taped, transcript, pastVars>>
      /\ ops' \in {Done(o) \cup ForSelected("chunk", Pending(o), o), Done(o)}
      /\ rolling' = rolling \/ (capture = o.audio /\ rolling' = rolling \cup {o.by})
  BY DEF SegmentStops
<1>3. ops' \subseteq OpStep
  BY <1>1, <1>2, ForSelectedFacts DEF Done, RefInv, TypeOK
<1>4. rolling' \subseteq IF capture' = NoCall THEN {} ELSE Speakers
  BY <1>1, <1>2, SoftphoneAssumption DEF RefInv, TypeOK
<1>5. TypeOK'
  BY <1>2, <1>3, <1>4, Rests DEF RefInv, TypeOK, sipVars, refVars, pastVars
<1> QED
  BY <1>1, <1>2, <1>5, FollowedKeeps

\* A handler that finishes a call takes a step that is neither to hang the leg up nor
\* to hear the desk's answer, or it is over.
LEMMA FinishKeeps ==
  ASSUME SoftphoneAssumption, RefInv, NEW o \in ops, Finishes(o),
         NEW at \in Places \ {"hang", "granted"}, at \in {"drain", "put"} => o.audio # NoCall,
         ops' \in {Moved(o, at), Done(o)},
         UNCHANGED <<deskVars, sipVars, refVars, capture, rolling, taped, transcript>>,
         recording' \in {recording, [recording EXCEPT ![o.call] = o.audio]}, PastOK'
  PROVE  RefInv'
<1>1. o.op \in {"hangup", "remote"} /\ o.call \in Calls /\ o.audio \in Calls \cup {NoCall}
  BY OpTypes DEF Finishes, RefInv, TypeOK, Refs
<1>2. DeskIsRight' /\ DeskKeeps /\ LinesStayUp /\ Desk!TypeOK'
  BY Rests
<1>3. /\ ops' \subseteq OpStep
      /\ \A q \in ops' : q \in ops \/ Harmless(q)
      /\ \A q \in ops : q.op = "register" => q \in ops'
  BY <1>1, <1>2, FinishMoves DEF Done, RefInv, TypeOK
<1>4. recording' \in [Calls -> Calls \cup {NoCall}]
  BY <1>1 DEF RefInv, TypeOK
<1>5. TypeOK'
  BY <1>2, <1>3, <1>4 DEF RefInv, TypeOK, sipVars, refVars, PastOK
<1> QED
  BY <1>2, <1>3, <1>5, CalmKeeps DEF refVars

LEMMA CaptureStopsKeeps ==
  ASSUME SoftphoneAssumption, RefInv, NEW o \in ops, CaptureStops(o)
  PROVE  RefInv'
<1>1. PastOK'
  BY DEF CaptureStops, pastVars, PastOK, RefInv, TypeOK
<1>2. o.audio # NoCall
  BY OpTypes, SoftphoneAssumption DEF CaptureStops, Reaches, RefInv, TypeOK
<1> QED
  BY <1>1, <1>2, FinishKeeps DEF CaptureStops, Reaches, tapeVars, Places

LEMMA UploadServedKeeps ==
  ASSUME SoftphoneAssumption, RefInv, NEW o \in ops, UploadServed(o)
  PROVE  RefInv'
<1>1. /\ Finishes(o) /\ ops' \in {Moved(o, "clear"), Done(o)}
      /\ recording' \in {recording, [recording EXCEPT ![o.call] = o.audio]}
      /\ spoilt' \in {spoilt, spoilt \cup {o.audio}} /\ spoilt' \subseteq spoilt \cup {o.audio}
      /\ failed' \subseteq failed \cup {o.call} /\ UNCHANGED unheeded
      /\ UNCHANGED <<deskVars, sipVars, refVars, capture, rolling, taped, transcript>>
  BY DEF UploadServed, Reaches, Fails
<1>2. PastOK'
  <2>1. o.call \in Calls /\ o.audio \in Calls
    BY OpTypes DEF UploadServed, Reaches, RefInv, TypeOK
  <2> QED
    BY <1>1, <2>1 DEF PastOK, RefInv, TypeOK
<1> QED
  BY <1>1, <1>2, FinishKeeps DEF Places

LEMMA NothingToUploadKeeps ==
  ASSUME SoftphoneAssumption, RefInv, NEW o \in ops, NothingToUpload(o)
  PROVE  RefInv'
<1>1. /\ Finishes(o) /\ ops' = Moved(o, "clear") /\ spoilt' = spoilt \cup {o.audio}
      /\ UNCHANGED <<deskVars, sipVars, refVars, tapeVars, unheeded, failed>>
  BY DEF NothingToUpload, Reaches
<1>2. PastOK'
  <2>1. o.audio \in Calls
    BY OpTypes DEF NothingToUpload, Reaches, RefInv, TypeOK
  <2> QED
    BY <1>1, <2>1 DEF PastOK, RefInv, TypeOK
<1> QED
  BY <1>1, <1>2, FinishKeeps DEF Places, tapeVars

LEMMA TakerMoves ==
  ASSUME RefInv, NEW o \in ops, NEW at \in Places \ {"drain", "put"}
  PROVE  LET m == Op(o.op, o.call, at, o.audio, o.by)
         IN  /\ m.op = o.op /\ m.call = o.call /\ m.at = at
             /\ m \in Moved(o, at) /\ Moved(o, at) \subseteq OpStep
             /\ \A q \in Moved(o, at) : (q \in ops /\ q # o) \/ q = m
<1> DEFINE m == Op(o.op, o.call, at, o.audio, o.by)
<1>1. m.op = o.op /\ m.call = o.call /\ m.at = at /\ m \in OpStep
  BY OpTypes, OpFacts DEF RefInv, TypeOK
<1>2. Moved(o, at) = (ops \ {o}) \cup {m} /\ ops \subseteq OpStep
  BY DEF Moved, RefInv, TypeOK
<1> HIDE DEF m
<1>3. m \in Moved(o, at) /\ Moved(o, at) \subseteq OpStep
      /\ \A q \in Moved(o, at) : (q \in ops /\ q # o) \/ q = m
  BY <1>1, <1>2
<1> QED
  BY <1>1, <1>3 DEF m

LEMMA RejectServedKeeps ==
  ASSUME SoftphoneAssumption, RefInv, NEW o \in ops, RejectServed(o)
  PROVE  RefInv'
<1>1. /\ UNCHANGED <<sipVars, refVars, tapeVars>> /\ PastOK'
      /\ Desk!Reject(o.call, Me) \/ UNCHANGED deskVars
      /\ \/ o.op = "reject" /\ ops' = Done(o)
         \/ o.op = "register" /\ o.at = "ghost" /\ ops' \in {Done(o), Moved(o, "refused")}
  BY FailsFacts DEF RejectServed, IsAt, Fails
<1>2. DeskIsRight' /\ DeskKeeps /\ LinesStayUp
  <2>1. DeskIsRight /\ o.call \in Calls
    BY OpTypes DEF DeskIsRight, RefInv, TypeOK
  <2> QED
    BY <1>1, <2>1, Rejected, Rests
<1>3. selected' = NoCall \/ assignee'[selected'] = Me
  BY <1>1, <1>2 DEF RefInv, TypeOK, RefsAreRight, DeskKeeps, refVars
<1>4. CASE o.op = "reject"
  <2>1. voice' \in {"null", "live", "ended"}
    BY <1>1 DEF RefInv, TypeOK, refVars
  <2> QED
    BY <1>1, <1>2, <1>4, <2>1, DoneKeeps DEF refVars
<1>5. CASE o.op = "register" /\ o.at = "ghost" /\ ops' = Done(o)
  <2>1. TypeOK'
    BY <1>1, <1>2, <1>5 DEF Done, DeskIsRight, PastOK, RefInv, TypeOK, sipVars, refVars, tapeVars
  <2>2. LegsGoOn /\ OfferGoesOn /\ UNCHANGED <<phone, outbound, alive>>
    BY <1>1 DEF LegsGoOn, OfferGoesOn, Ringing, Talking, sipVars, refVars
  <2>3. RegisterGoesOn
    BY <1>5 DEF RegisterGoesOn, RefInv, LegIsKnown
  <2>4. \A q \in ops' : q \in ops
    BY <1>5 DEF Done
  <2> QED
    BY <1>2, <1>3, <2>1, <2>2, <2>3, <2>4, QuietKeeps
<1>6. CASE o.op = "register" /\ ops' = Moved(o, "refused")
  <2> DEFINE m == Op(o.op, o.call, "refused", o.audio, o.by)
  <2>1. /\ m.op = o.op /\ m.call = o.call /\ m.at = "refused"
        /\ m \in ops' /\ ops' \subseteq OpStep
        /\ \A q \in ops' : (q \in ops /\ q # o) \/ q = m
    BY <1>6, TakerMoves DEF Places
  <2> HIDE DEF m
  <2>2. TypeOK'
    BY <1>1, <1>2, <2>1 DEF DeskIsRight, PastOK, RefInv, TypeOK, sipVars, refVars, tapeVars
  <2>3. Takes(o) /\ UNCHANGED <<sipVars, pending, alive, ending>>
    BY <1>1, <1>6 DEF Takes, refVars
  <2> QED
    BY <1>2, <1>3, <1>6, <2>1, <2>2, <2>3, TakerKeeps
<1> QED
  BY <1>1, <1>4, <1>5, <1>6

LEMMA HangUpReturnsKeeps ==
  ASSUME SoftphoneAssumption, RefInv, NEW o \in ops, HangUpReturns(o)
  PROVE  RefInv'
<1>1. /\ o.op \in {"hangup", "remote"} /\ voice' \in {"null", "ended"}
      /\ UNCHANGED <<deskVars, sipVars, selected, pending, alive, ending, tapeVars, pastVars>>
  BY DEF HangUpReturns, Reaches, Finishes
<1>2. o.call \in Calls /\ assignee[o.call] = Me
  BY <1>1, FinishFacts
<1> DEFINE loads == {Ask("load", c) :
                        c \in (IF o.op = "hangup" THEN {o.call} ELSE {selected}) \ {NoCall}}
<1>3. \A q \in loads : q \in OpStep /\ q.op = "load" /\ assignee[q.call] = Me
  <2>1. ASSUME NEW c \in (IF o.op = "hangup" THEN {o.call} ELSE {selected}) \ {NoCall}
        PROVE  LET q == Ask("load", c)
               IN  q \in OpStep /\ q.op = "load" /\ assignee[q.call] = Me
    <3>1. c \in Calls /\ assignee[c] = Me
      BY <1>2, <2>1 DEF RefInv, TypeOK, RefsAreRight
    <3> QED
      BY <3>1, AskFacts DEF Kinds
  <2> QED
    BY <2>1
<1>4. ops' = Done(o) \cup loads
  BY DEF HangUpReturns
<1> HIDE DEF loads
<1>5. TypeOK'
  <2>1. ops' \subseteq OpStep
    BY <1>3, <1>4 DEF Done, RefInv, TypeOK
  <2> QED
    BY <1>1, <2>1, Rests DEF RefInv, TypeOK, sipVars, tapeVars, pastVars
<1>6. \A q \in ops' : q \in ops \/ Harmless(q)
  BY <1>1, <1>3, <1>4 DEF Done, Harmless, Takes, deskVars
<1>7. \A q \in ops : q.op = "register" => q \in ops'
  BY <1>1, <1>4 DEF Done
<1> QED
  BY <1>1, <1>5, <1>6, <1>7, Rests, CalmKeeps


\* The agent or the page starts m, which is no harm.
LEMMA AddedKeeps ==
  ASSUME SoftphoneAssumption, RefInv, NEW m \in OpStep,
         m.op \in {"reject", "wrapup"} \/ (m.op = "load" /\ assignee[m.call] = Me),
         ops' = ops \cup {m},
         UNCHANGED <<deskVars, sipVars, pending, alive, ending, tapeVars, voice>>, PastOK',
         selected' = selected \/ (selected' \in Calls /\ assignee[selected'] = Me)
  PROVE  RefInv'
<1>1. TypeOK'
  <2>1. selected' \in Calls \cup {NoCall}
    BY DEF RefInv, TypeOK
  <2> QED
    BY <2>1, Rests DEF RefInv, TypeOK, sipVars, tapeVars, PastOK
<1>2. \A q \in ops' : q \in ops \/ Harmless(q)
  BY DEF Harmless, Takes, deskVars
<1>3. selected' \in {selected, NoCall} \/ assignee'[selected'] = Me
  BY DEF deskVars
<1> QED
  BY <1>1, <1>2, <1>3, Rests, CalmKeeps

LEMMA PastStays ==
  ASSUME RefInv, UNCHANGED pastVars
  PROVE  PastOK'
BY DEF RefInv, TypeOK, pastVars, PastOK

LEMMA RefreshKeeps ==
  ASSUME SoftphoneAssumption, RefInv, Refresh
  PROVE  RefInv'
<1>1. selected \in Calls /\ assignee[selected] = Me
  BY DEF Refresh, RefInv, TypeOK, RefsAreRight
<1>2. LET m == Ask("load", selected)
      IN  m \in OpStep /\ m.op = "load" /\ assignee[m.call] = Me
  BY <1>1, AskFacts DEF Kinds
<1> QED
  BY <1>2, AddedKeeps, PastStays DEF Refresh, Start, refVars

LEMMA SelectKeeps ==
  ASSUME SoftphoneAssumption, RefInv, NEW c \in Calls, Select(c)
  PROVE  RefInv'
<1>1. LET m == Ask("load", c)
      IN  m \in OpStep /\ m.op = "load" /\ assignee[m.call] = Me
  BY AskFacts DEF Kinds, Select
<1> QED
  BY <1>1, AddedKeeps, PastStays DEF Select

LEMMA WrapUpClickKeeps ==
  ASSUME SoftphoneAssumption, RefInv, NEW c \in Calls, WrapUpClick(c)
  PROVE  RefInv'
<1>1. Ask("wrapup", c) \in OpStep /\ Ask("wrapup", c).op = "wrapup"
  BY AskFacts DEF Kinds
<1> QED
  BY <1>1, AddedKeeps, PastStays DEF WrapUpClick, Start, refVars

LEMMA QueuedKeeps ==
  ASSUME SoftphoneAssumption, RefInv, NEW c \in Calls, Queued(c)
  PROVE  RefInv'
<1>1. DeskIsRight' /\ DeskKeeps /\ LinesStayUp
  <2>1. DeskIsRight
    BY DEF DeskIsRight, RefInv, TypeOK
  <2>2. (\E q \in BOOLEAN : Desk!CreateConversation(c, "chat", q)) \/ Desk!RingInbound(c)
    BY DEF Queued
  <2> QED
    BY <2>1, <2>2, NewRow
<1>2. UNCHANGED <<sipVars, refVars, tapeVars, pastVars, ops>>
  BY DEF Queued
<1>3. TypeOK'
  BY <1>1, <1>2 DEF DeskIsRight, RefInv, TypeOK, sipVars, refVars, tapeVars, pastVars
<1> QED
  BY <1>1, <1>2, <1>3, CalmKeeps DEF refVars

LEMMA WrapUpServedKeeps ==
  ASSUME SoftphoneAssumption, RefInv, NEW o \in ops, WrapUpServed(o)
  PROVE  RefInv'
<1>1. /\ o.op = "wrapup" /\ o.call \in Calls /\ PastOK'
      /\ UNCHANGED <<sipVars, refVars, tapeVars>> /\ ops' \in {Moved(o, "granted"), Done(o)}
      /\ Desk!WrapUp(o.call) \/ UNCHANGED deskVars
  BY OpTypes, FailsFacts DEF WrapUpServed, IsAt, Served, Fails, RefInv, TypeOK
<1>2. DeskIsRight' /\ DeskKeeps /\ LinesStayUp
  <2>1. DeskIsRight
    BY DEF DeskIsRight, RefInv, TypeOK
  <2> QED
    BY <1>1, <2>1, WrappedUp, Rests
<1>3. /\ ops' \subseteq OpStep
      /\ \A q \in ops' : q \in ops \/ q.op = "wrapup"
      /\ \A q \in ops : q = o \/ q \in ops'
  BY <1>1, MovedFacts DEF Places, RefInv, TypeOK
<1>4. TypeOK'
  BY <1>1, <1>2, <1>3 DEF DeskIsRight, RefInv, TypeOK, sipVars, refVars, tapeVars, PastOK
<1>5. \A q \in ops' : q \in ops \/ Harmless(q)
  BY <1>3 DEF Harmless, Takes
<1> QED
  BY <1>1, <1>2, <1>3, <1>4, <1>5, CalmKeeps DEF refVars

LEMMA WrapUpReturnsKeeps ==
  ASSUME SoftphoneAssumption, RefInv, NEW o \in ops, WrapUpReturns(o)
  PROVE  RefInv'
BY DoneKeeps, PastStays, Rests DEF WrapUpReturns, IsAt

-----------------------------------------------------------------------------
(* ... those of a leg that the far end or the agent answers ... *)

LEMMA FarEndAnswersKeeps ==
  ASSUME SoftphoneAssumption, RefInv, NEW c \in Calls, FarEndAnswers(c)
  PROVE  RefInv'
<1>1. /\ Ringing(c) /\ c \in outbound /\ leg' = [leg EXCEPT ![c] = "answered"]
      /\ UNCHANGED <<deskVars, outbound, phone, refVars, tapeVars, pastVars, ops>>
  BY DEF FarEndAnswers
<1>2. TypeOK'
  BY <1>1, Rests DEF RefInv, TypeOK, refVars, tapeVars, pastVars
<1>3. LegsGoOn
  <2>1. OneAtATime => Desk!MayControl(c, Me)
    BY <1>1 DEF RefInv, LineIsSole
  <2> QED
    BY <1>1, <2>1 DEF LegsGoOn, Ringing, Talking, RefInv, TypeOK
<1>4. OfferGoesOn /\ RegisterGoesOn
  BY <1>1 DEF OfferGoesOn, RegisterGoesOn, refVars
<1>5. selected' = NoCall \/ assignee'[selected'] = Me
  BY <1>1 DEF RefInv, TypeOK, RefsAreRight, deskVars, refVars
<1> QED
  BY <1>1, <1>2, <1>3, <1>4, <1>5, Rests, QuietKeeps DEF refVars

LEMMA MediaKeeps ==
  ASSUME SoftphoneAssumption, RefInv, NEW c \in Calls, Media(c)
  PROVE  RefInv'
<1>1. /\ leg[c] = "answered" /\ leg' = [leg EXCEPT ![c] = "up"]
      /\ UNCHANGED <<deskVars, outbound, phone, refVars, recording, transcript, unheeded,
                     failed, ops>>
      /\ \/ capture' = c /\ rolling' = Speakers
         \/ UNCHANGED <<capture, rolling>>
      /\ taped' \subseteq taped \cup {c} /\ spoilt' \subseteq spoilt \cup {c}
  BY DEF Media, StartCapture
<1>2. TypeOK'
  <2>1. /\ capture' \in Calls \cup {NoCall}
        /\ rolling' \subseteq IF capture' = NoCall THEN {} ELSE Speakers
    BY <1>1, SoftphoneAssumption DEF RefInv, TypeOK
  <2>2. leg' \in [Calls -> {"none", "ringing", "answered", "up", "over"}]
    BY <1>1 DEF RefInv, TypeOK
  <2>3. {phone', selected', pending', capture'} \subseteq Calls \cup {NoCall}
    BY <1>1, <2>1 DEF RefInv, TypeOK, refVars
  <2> QED
    BY <1>1, <2>1, <2>2, <2>3, Rests DEF RefInv, TypeOK, refVars
<1>3. LegsGoOn
  BY <1>1 DEF LegsGoOn, Ringing, Talking, RefInv, TypeOK
<1>4. OfferGoesOn /\ RegisterGoesOn
  BY <1>1 DEF OfferGoesOn, RegisterGoesOn, refVars
<1>5. selected' = NoCall \/ assignee'[selected'] = Me
  BY <1>1 DEF RefInv, TypeOK, RefsAreRight, deskVars, refVars
<1> QED
  BY <1>1, <1>2, <1>3, <1>4, <1>5, Rests, QuietKeeps DEF refVars

LEMMA OfferedKeeps ==
  ASSUME SoftphoneAssumption, RefInv, NEW o \in ops, Offered(o)
  PROVE  RefInv'
<1>1. /\ o.op = "register" /\ o.at = "granted"
      /\ UNCHANGED <<deskVars, sipVars, selected, voice, alive, ending, tapeVars, pastVars>>
  BY DEF Offered, IsAt
<1>2. o.call \in Calls /\ session[o.call] # "none"
  BY <1>1, OpTypes DEF RefInv, TypeOK, GrantsStand
<1>3. LegsGoOn
  BY <1>1 DEF LegsGoOn, Ringing, Talking, sipVars
<1>4. selected' = NoCall \/ assignee'[selected'] = Me
  BY <1>1 DEF RefInv, TypeOK, RefsAreRight, deskVars
<1>5. OneAtATime => /\ phone # NoCall => alive /\ phone = o.call
                    /\ \A q \in ops : q.op # "claim"
  BY <1>1 DEF RefInv, LegIsKnown, TakenInTurn, Takes
<1>6. CASE alive
  <2>1. pending' = o.call /\ ops' = Done(o)
    BY <1>6 DEF Offered
  <2>2. TypeOK'
    BY <1>1, <1>2, <2>1, Rests DEF RefInv, TypeOK, Done, sipVars, tapeVars, pastVars
  <2>3. OfferGoesOn /\ RegisterGoesOn
    BY <1>2, <1>5, <2>1 DEF OfferGoesOn, RegisterGoesOn, Done
  <2> QED
    BY <1>1, <1>3, <1>4, <2>1, <2>2, <2>3, Rests, QuietKeeps DEF sipVars, Done
<1>7. CASE ~alive
  <2> DEFINE m == Op(o.op, o.call, "ghost", o.audio, o.by)
  <2>1. /\ m.op = o.op /\ m.call = o.call /\ m.at = "ghost"
        /\ m \in Moved(o, "ghost") /\ Moved(o, "ghost") \subseteq OpStep
        /\ \A q \in Moved(o, "ghost") : (q \in ops /\ q # o) \/ q = m
    BY TakerMoves DEF Places
  <2>2. pending' = pending /\ ops' = Moved(o, "ghost")
    BY <1>7 DEF Offered
  <2> HIDE DEF m
  <2>3. TypeOK'
    BY <1>1, <2>1, <2>2, Rests DEF RefInv, TypeOK, sipVars, tapeVars, pastVars
  <2>4. Takes(o)
    BY <1>1 DEF Takes
  <2> QED
    BY <1>1, <1>4, <1>5, <1>7, <2>1, <2>2, <2>3, <2>4, Rests, TakerKeeps
<1> QED
  BY <1>6, <1>7

\* The leg that is answered is that of the call the agent has claimed.
LEMMA AnsweredKeeps ==
  ASSUME SoftphoneAssumption, RefInv, NEW o \in ops, Answered(o)
  PROVE  RefInv'
<1>1. /\ o.op = "claim" /\ o.at = "fetch" /\ ops' = Done(o)
      /\ pending' = NoCall /\ alive' = TRUE /\ voice' \in {"ended", "live"} /\ AnswerLeg
      /\ UNCHANGED <<deskVars, outbound, phone, selected, ending, tapeVars, pastVars>>
  BY DEF Answered, IsAt
<1>2. o.call \in Calls /\ assignee[o.call] = Me
  BY <1>1, OpTypes DEF RefInv, TypeOK, GrantsStand
<1>3. /\ leg' \in [Calls -> {"none", "ringing", "answered", "up", "over"}]
      /\ \A x \in Calls : leg'[x] = IF x = phone /\ x \notin outbound /\ Ringing(x)
                                    THEN "answered" ELSE leg[x]
  BY <1>1 DEF AnswerLeg, RefInv, TypeOK
<1>4. TypeOK'
  BY <1>1, <1>3, Rests DEF RefInv, TypeOK, Done, tapeVars, pastVars
<1>5. OneAtATime => \A q \in ops : Takes(q) => q = o
  BY <1>1 DEF RefInv, TakenInTurn, Takes
<1>6. ASSUME OneAtATime, NEW x \in Calls, x = phone, x \notin outbound, Ringing(x)
      PROVE  Desk!MayControl(x, Me)
  <2>1. phone # NoCall /\ LegIsKnown
    BY <1>6, SoftphoneAssumption DEF RefInv
  <2>2. pending = o.call /\ session[o.call] \in {"none"} \cup Desk!Live
    BY <1>1, <2>1 DEF LegIsKnown
  <2>3. pending = phone
    BY <1>1, <1>5, <1>6, <2>1 DEF LegIsKnown, Takes
  <2>4. session[o.call] # "none"
    BY <2>1, <2>2, <2>3 DEF RefInv, RefsAreRight
  <2> QED
    BY <1>2, <1>6, <2>2, <2>3, <2>4 DEF Desk!MayControl
<1>7. LegsGoOn
  BY <1>3, <1>6 DEF LegsGoOn, Ringing, Talking
<1>8. OfferGoesOn
  <2>1. phone = NoCall \/ phone \in outbound \/ ~Ringing(phone)'
    BY <1>1, <1>3 DEF Ringing, RefInv, TypeOK
  <2>2. OneAtATime => \A q \in ops' : q.op # "claim"
    BY <1>1, <1>5 DEF Done, Takes
  <2> QED
    BY <1>1, <2>1, <2>2 DEF OfferGoesOn
<1>9. RegisterGoesOn
  BY <1>1, <1>5 DEF RegisterGoesOn, Takes
<1>10. selected' = NoCall \/ assignee'[selected'] = Me
  BY <1>1 DEF RefInv, TypeOK, RefsAreRight, deskVars
<1> QED
  BY <1>1, <1>4, <1>7, <1>8, <1>9, <1>10, Rests, QuietKeeps DEF Done

-----------------------------------------------------------------------------
(* ... those that end a leg ... *)

LEMMA RemoteEndsKeeps ==
  ASSUME SoftphoneAssumption, RefInv, NEW c \in Calls, RemoteEnds(c)
  PROVE  RefInv'
<1>1. /\ Ringing(c) \/ Talking(c)
      /\ LegEnds(c, pending, ending, ops)
      /\ spoilt' = spoilt \cup Spoiling' /\ UNCHANGED atEnd
  BY DEF RemoteEnds, atEnd
<1>2. ending \in BOOLEAN /\ ops \in SUBSET OpStep
  BY DEF RefInv, TypeOK
<1> QED
  BY <1>1, <1>2, LegEndsKeeps

LEMMA TurnedAwayKeeps ==
  ASSUME SoftphoneAssumption, RefInv, NEW o \in ops, TurnedAway(o)
  PROVE  RefInv'
<1>1. /\ Terminate(pending, alive, ending, Done(o))
      /\ spoilt' = spoilt \cup Spoiling' /\ UNCHANGED atEnd
  BY DEF TurnedAway, atEnd
<1>2. /\ alive \in BOOLEAN /\ ending \in BOOLEAN
      /\ Done(o) \in SUBSET OpStep /\ \A q \in Done(o) : q \in ops
  BY DEF RefInv, TypeOK, Done
<1> QED
  BY <1>1, <1>2, TerminateKeeps

LEMMA RejectClickKeeps ==
  ASSUME SoftphoneAssumption, RefInv, NEW c \in Calls, RejectClick(c)
  PROVE  RefInv'
<1> DEFINE m == Ask("reject", c)
<1>1. m \in OpStep /\ m.op = "reject"
  BY AskFacts DEF Kinds
<1>2. spoilt' = spoilt \cup Spoiling' /\ UNCHANGED atEnd
  BY DEF RejectClick, atEnd
<1>3. CASE Terminate(NoCall, FALSE, ending, ops \cup {m})
  <2> HIDE DEF m
  <2>1. ending \in BOOLEAN /\ ops \cup {m} \in SUBSET OpStep
    BY <1>1 DEF RefInv, TypeOK
  <2>2. \A q \in ops \cup {m} : q \in ops \/ LeftBehind(q)
    BY <1>1 DEF LeftBehind, Takes
  <2> QED
    BY <1>2, <1>3, <2>1, <2>2, TerminateKeeps
<1>4. CASE /\ ops' = ops \cup {m}
           /\ UNCHANGED <<leg, phone, pending, alive, ending, capture, rolling, unheeded>>
  <2> HIDE DEF m
  <2>1. spoilt' \subseteq Calls
    BY <1>1, <1>2, <1>4, SpoilingFacts DEF RefInv, TypeOK
  <2>2. PastOK'
    BY <1>2, <1>4, <2>1 DEF PastOK, RefInv, TypeOK, atEnd
  <2> QED
    BY <1>1, <1>2, <1>4, <2>2, AddedKeeps DEF sipVars, tapeVars, atEnd
<1> QED
  BY <1>3, <1>4 DEF RejectClick

LEMMA HangUpClickKeeps ==
  ASSUME SoftphoneAssumption, RefInv, NEW c \in Calls, HangUpClick(c)
  PROVE  RefInv'
<1>1. assignee[c] = Me
  BY SoftphoneAssumption DEF HangUpClick, RefInv, RefsAreRight
<1>2. OneAtATime => \A q \in ops : q.op # "dial"
  <2>1. CASE Finishing
    BY <2>1 DEF Finishing, Finishes, RefInv, TakenInTurn
  <2>2. CASE Settled
    BY <2>2, SettledFacts
  <2> QED
    BY <2>1, <2>2 DEF HangUpClick
<1>3. spoilt' = spoilt \cup Spoiling' /\ UNCHANGED atEnd
  BY DEF HangUpClick, atEnd
<1>4. /\ Finish("hangup", c) \subseteq OpStep
      /\ \A q \in Finish("hangup", c) :
            q.op \in {"hangup", "segment"} /\ (q.op = "hangup" => q.call = c)
  BY FinishSet
<1>5. \A q \in Finish("hangup", c) : LeftBehind(q)
  BY <1>1, <1>2, <1>4 DEF LeftBehind, Takes
<1>6. CASE capture = NoCall
  <2>1. Terminate(pending, alive, TRUE, ops \cup Finish("hangup", c))
    BY <1>6 DEF HangUpClick
  <2>2. alive \in BOOLEAN /\ ops \cup Finish("hangup", c) \in SUBSET OpStep
    BY <1>4 DEF RefInv, TypeOK
  <2> QED
    BY <1>3, <1>5, <2>1, <2>2, TerminateKeeps
<1>7. CASE capture # NoCall
  <2>1. /\ ending' = TRUE /\ capture' = NoCall /\ rolling' = {}
        /\ ops' = ops \cup Finish("hangup", c)
        /\ UNCHANGED <<leg, phone, pending, alive, unheeded>>
    BY <1>7 DEF HangUpClick
  <2>2. ops' \subseteq OpStep
    BY <1>4, <2>1 DEF RefInv, TypeOK
  <2>3. spoilt' \subseteq Calls
    BY <1>3, <2>2, SpoilingFacts DEF RefInv, TypeOK
  <2>4. TypeOK'
    BY <1>3, <2>1, <2>2, <2>3, Rests DEF RefInv, TypeOK, atEnd
  <2>5. \A q \in Finish("hangup", c) :
           q.op = "hangup" => q.at = "drain"
    BY <1>7, OpFacts DEF Finish
  <2>6. \A q \in ops' : q \in ops \/ Harmless(q)
    BY <1>1, <1>2, <1>3, <1>4, <2>1, <2>5 DEF Harmless, Takes, deskVars, atEnd
  <2> QED
    BY <1>3, <2>1, <2>4, <2>6, Rests, CalmKeeps DEF sipVars, atEnd
<1> QED
  BY <1>6, <1>7

LEMMA LegDownKeeps ==
  ASSUME SoftphoneAssumption, RefInv, NEW o \in ops, LegDown(o)
  PROVE  RefInv'
<1>1. /\ o.op \in {"hangup", "remote"}
      /\ spoilt' = spoilt \cup Spoiling' /\ UNCHANGED atEnd
  BY DEF LegDown, Reaches, Finishes, atEnd
<1>2. /\ assignee[o.call] = Me
      /\ OneAtATime => /\ \A q \in ops : q.op # "dial"
                       /\ phone # NoCall => o.op = "hangup"
  BY <1>1, FinishFacts
<1>3. /\ Moved(o, "hang") \in SUBSET OpStep
      /\ \A q \in Moved(o, "hang") : q \in ops \/ (q.op = o.op /\ q.call = o.call /\ q.at = "hang")
      /\ \A q \in ops : q = o \/ q \in Moved(o, "hang")
  BY MovedFacts DEF RefInv, TypeOK, Places
<1>4. CASE Terminate(pending, alive, ending, Moved(o, "hang"))
  <2>1. alive \in BOOLEAN /\ ending \in BOOLEAN
    BY DEF RefInv, TypeOK
  <2>2. \A q \in Moved(o, "hang") : q \in ops \/ LeftBehind(q)
    BY <1>1, <1>2, <1>3 DEF LeftBehind, Takes
  <2> QED
    BY <1>1, <1>3, <1>4, <2>1, <2>2, TerminateKeeps
<1>5. CASE /\ o.op # "hangup" /\ ops' = Moved(o, "hang")
           /\ UNCHANGED <<leg, phone, pending, alive, ending, capture, rolling, unheeded>>
  <2>1. TypeOK'
    <3>1. spoilt' \subseteq Calls
      BY <1>1, <1>3, <1>5, SpoilingFacts DEF RefInv, TypeOK
    <3> QED
      BY <1>1, <1>3, <1>5, <3>1, Rests DEF RefInv, TypeOK, atEnd
  <2>2. \A q \in ops' : q \in ops \/ Harmless(q)
    BY <1>1, <1>2, <1>3, <1>5 DEF Harmless, Takes, deskVars, atEnd
  <2> QED
    BY <1>1, <1>3, <1>5, <2>1, <2>2, Rests, CalmKeeps DEF sipVars, atEnd
<1> QED
  BY <1>4, <1>5 DEF LegDown

-----------------------------------------------------------------------------
(* ... and those that take a call. *)

LEMMA ClaimClickKeeps ==
  ASSUME SoftphoneAssumption, RefInv, NEW c \in Calls, ClaimClick(c)
  PROVE  RefInv'
<1> DEFINE m == Ask("claim", c)
<1>1. m \in OpStep /\ m.op = "claim" /\ m.at = "sent"
  BY AskFacts DEF Kinds
<1>2. /\ Settled /\ ops' = ops \cup {m}
      /\ UNCHANGED <<deskVars, sipVars, refVars, tapeVars, pastVars>>
  BY DEF ClaimClick, Start
<1> HIDE DEF m
<1>3. TypeOK'
  BY <1>1, <1>2, Rests DEF RefInv, TypeOK, sipVars, refVars, tapeVars, pastVars
<1> QED
  BY <1>1, <1>2, <1>3, StartKeeps

LEMMA DialClickKeeps ==
  ASSUME SoftphoneAssumption, RefInv, NEW c \in Calls, DialClick(c)
  PROVE  RefInv'
<1> DEFINE m == Ask("dial", c)
<1>1. m \in OpStep /\ m.op = "dial" /\ m.at = "sent"
  BY AskFacts DEF Kinds
<1>2. /\ Settled /\ ops' = ops \cup {m} /\ phone = NoCall
      /\ UNCHANGED <<deskVars, sipVars, refVars, tapeVars, pastVars>>
  BY DEF DialClick, Start
<1> HIDE DEF m
<1>3. TypeOK'
  BY <1>1, <1>2, Rests DEF RefInv, TypeOK, sipVars, refVars, tapeVars, pastVars
<1> QED
  BY <1>1, <1>2, <1>3, StartKeeps

\* The desk's answer to the request of o, which takes a call.
LEMMA AnswerKeeps ==
  ASSUME SoftphoneAssumption, RefInv, NEW o \in ops, Takes(o), NEW at \in {"granted", "refused"},
         ops' = Moved(o, at), DeskIsRight', DeskKeeps, LinesStayUp,
         UNCHANGED <<sipVars, refVars, tapeVars>>, PastOK',
         o.op \in {"claim", "dial"} => assignee'[o.call] = Me,
         o.op = "register" /\ at = "granted" => session'[o.call] # "none",
         o.op = "dial" => Desk!MayControl(o.call, Me)',
         o.op = "claim" => session'[o.call] \in {"none"} \cup Desk!Live
  PROVE  RefInv'
<1> DEFINE m == Op(o.op, o.call, at, o.audio, o.by)
<1>1. /\ m.op = o.op /\ m.call = o.call /\ m.at = at
      /\ m \in ops' /\ ops' \subseteq OpStep
      /\ \A q \in ops' : (q \in ops /\ q # o) \/ q = m
  BY TakerMoves DEF Places
<1> HIDE DEF m
<1>2. TypeOK'
  BY <1>1 DEF DeskIsRight, RefInv, TypeOK, sipVars, refVars, tapeVars, PastOK
<1>3. selected' = NoCall \/ assignee'[selected'] = Me
  BY DEF RefInv, TypeOK, RefsAreRight, DeskKeeps, refVars
<1>4. UNCHANGED <<sipVars, pending, alive, ending>>
  BY DEF refVars
<1> QED
  BY <1>1, <1>2, <1>3, <1>4, TakerKeeps DEF Desk!MayControl

LEMMA RegisterServedKeeps ==
  ASSUME SoftphoneAssumption, RefInv, NEW o \in ops, RegisterServed(o)
  PROVE  RefInv'
<1>1. /\ o.op = "register" /\ Takes(o) /\ o.call \in Calls /\ DeskIsRight /\ PastOK'
      /\ UNCHANGED <<sipVars, refVars, tapeVars>>
      /\ \/ Desk!RegisterLiveInbound(o.call, Me) /\ ops' \in {Moved(o, "granted"), Moved(o, "refused")}
         \/ UNCHANGED deskVars /\ ops' = Moved(o, "refused")
  BY OpTypes, FailsFacts DEF RegisterServed, Served, Fails, IsAt, Takes, DeskIsRight, RefInv, TypeOK
<1>2. CASE Desk!RegisterLiveInbound(o.call, Me)
  BY <1>1, <1>2, Registered, Rests, AnswerKeeps
<1>3. CASE UNCHANGED deskVars /\ ops' = Moved(o, "refused")
  BY <1>1, <1>3, Rests, AnswerKeeps
<1> QED
  BY <1>1, <1>2, <1>3

LEMMA ClaimServedKeeps ==
  ASSUME SoftphoneAssumption, RefInv, NEW o \in ops, ClaimServed(o)
  PROVE  RefInv'
<1>1. /\ o.op = "claim" /\ Takes(o) /\ o.call \in Calls /\ DeskIsRight /\ PastOK'
      /\ UNCHANGED <<sipVars, refVars, tapeVars>>
      /\ \/ Desk!Claim(o.call, Me) /\ ops' \in {Moved(o, "granted"), Done(o)}
         \/ UNCHANGED deskVars /\ ops' = Done(o)
  BY OpTypes, FailsFacts DEF ClaimServed, Served, Fails, IsAt, Takes, DeskIsRight, RefInv, TypeOK
<1>2. voice' \in {"null", "live", "ended"}
  BY <1>1 DEF RefInv, TypeOK, refVars
<1>3. CASE Desk!Claim(o.call, Me) /\ ops' = Moved(o, "granted")
  BY <1>1, <1>3, Claimed, AnswerKeeps DEF Desk!Live
<1>4. CASE ops' = Done(o)
  BY <1>1, <1>2, <1>4, Claimed, Rests, DoneKeeps DEF refVars
<1> QED
  BY <1>1, <1>3, <1>4

LEMMA DialServedKeeps ==
  ASSUME SoftphoneAssumption, RefInv, NEW o \in ops, DialServed(o)
  PROVE  RefInv'
<1>1. /\ o.op = "dial" /\ Takes(o) /\ o.call \in Calls /\ DeskIsRight /\ PastOK'
      /\ UNCHANGED <<sipVars, refVars, tapeVars>>
      /\ \/ Desk!Dial(o.call, Me) /\ ops' \in {Moved(o, "granted"), Done(o)}
         \/ UNCHANGED deskVars /\ ops' = Done(o)
  BY OpTypes, FailsFacts DEF DialServed, Served, Fails, IsAt, Takes, DeskIsRight, RefInv, TypeOK
<1>2. voice' \in {"null", "live", "ended"}
  BY <1>1 DEF RefInv, TypeOK, refVars
<1>3. CASE Desk!Dial(o.call, Me) /\ ops' = Moved(o, "granted")
  BY <1>1, <1>3, Dialled, AnswerKeeps
<1>4. CASE ops' = Done(o)
  BY <1>1, <1>2, <1>4, Dialled, Rests, DoneKeeps DEF refVars
<1> QED
  BY <1>1, <1>3, <1>4

LEMMA ClaimReturnsKeeps ==
  ASSUME SoftphoneAssumption, RefInv, NEW o \in ops, ClaimReturns(o)
  PROVE  RefInv'
<1>1. /\ o.op = "claim" /\ o.at = "granted" /\ selected' = o.call /\ voice' \in {voice, "null"}
      /\ UNCHANGED <<deskVars, sipVars, pending, alive, ending, tapeVars, pastVars>>
  BY DEF ClaimReturns, IsAt
<1>2. o.call \in Calls /\ assignee[o.call] = Me /\ Takes(o)
  BY <1>1, OpTypes DEF RefInv, TypeOK, GrantsStand, Takes
<1> DEFINE l == Ask("load", o.call)
<1>3. l \in OpStep /\ l.op = "load" /\ l.call = o.call
  BY <1>2, AskFacts DEF Kinds
<1>4. ops' = (IF pending = o.call THEN Moved(o, "fetch") ELSE Done(o)) \cup {l}
  BY DEF ClaimReturns
<1> HIDE DEF l
<1>5. Harmless(l) /\ assignee'[selected'] = Me
  BY <1>1, <1>2, <1>3 DEF Harmless, Takes, deskVars
<1>6. CASE pending = o.call
  <2> DEFINE m == Op(o.op, o.call, "fetch", o.audio, o.by)
  <2>1. /\ m.op = o.op /\ m.call = o.call /\ m.at = "fetch"
        /\ m \in Moved(o, "fetch") /\ Moved(o, "fetch") \subseteq OpStep
        /\ \A q \in Moved(o, "fetch") : (q \in ops /\ q # o) \/ q = m
    BY TakerMoves DEF Places
  <2> HIDE DEF m
  <2>2. /\ m \in ops' /\ ops' \subseteq OpStep
        /\ \A q \in ops' : (q \in ops /\ q # o) \/ q = m \/ Harmless(q)
    BY <1>3, <1>4, <1>5, <1>6, <2>1
  <2>3. TypeOK'
    BY <1>1, <1>2, <2>2, Rests DEF RefInv, TypeOK, sipVars, tapeVars, pastVars
  <2>4. OneAtATime /\ phone # NoCall => session'[o.call] \in {"none"} \cup Desk!Live
    BY <1>1 DEF RefInv, LegIsKnown, deskVars
  <2>5. assignee'[o.call] = Me
    BY <1>1, <1>2 DEF deskVars
  <2> QED
    BY <1>1, <1>2, <1>5, <1>6, <2>1, <2>2, <2>3, <2>4, <2>5, Rests, TakerKeeps
<1>7. CASE pending # o.call
  <2>1. TypeOK'
    BY <1>1, <1>2, <1>3, <1>4, <1>7, Rests DEF RefInv, TypeOK, Done, sipVars, tapeVars, pastVars
  <2>2. /\ \A q \in ops' : q \in ops \/ Harmless(q)
        /\ \A q \in ops : q.op = "register" => q \in ops'
    BY <1>1, <1>4, <1>5, <1>7 DEF Done
  <2> QED
    BY <1>1, <1>5, <2>1, <2>2, Rests, CalmKeeps
<1> QED
  BY <1>6, <1>7

\* The leg that is placed is the only one, and nothing else is under way.
LEMMA DialReturnsKeeps ==
  ASSUME SoftphoneAssumption, RefInv, NEW o \in ops, DialReturns(o)
  PROVE  RefInv'
<1>1. /\ o.op = "dial" /\ o.at = "granted" /\ selected' = o.call /\ voice' \in {"live", "null"}
      /\ UNCHANGED <<deskVars, pending, alive, ending, tapeVars, pastVars>>
  BY DEF DialReturns, IsAt
<1>2. o.call \in Calls /\ assignee[o.call] = Me /\ Takes(o)
  BY <1>1, OpTypes DEF RefInv, TypeOK, GrantsStand, Takes
<1> DEFINE l == Ask("load", o.call)
<1>3. l \in OpStep /\ l.op = "load" /\ l.call = o.call
  BY <1>2, AskFacts DEF Kinds
<1>4. ops' = Done(o) \cup {l}
  BY DEF DialReturns
<1> HIDE DEF l
<1>5. ops' \subseteq OpStep /\ (\A q \in ops' : (q \in ops /\ q # o) \/ q = l)
  BY <1>3, <1>4 DEF Done, RefInv, TypeOK
<1>6. CASE UNCHANGED sipVars
  <2>1. TypeOK'
    BY <1>1, <1>2, <1>5, <1>6, Rests DEF RefInv, TypeOK, sipVars, tapeVars, pastVars
  <2>2. \A q \in ops' : q \in ops \/ Harmless(q)
    BY <1>1, <1>2, <1>3, <1>5 DEF Harmless, Takes, deskVars
  <2>3. \A q \in ops : q.op = "register" => q \in ops'
    BY <1>1, <1>4 DEF Done
  <2>4. assignee'[selected'] = Me
    BY <1>1, <1>2 DEF deskVars
  <2> QED
    BY <1>1, <1>6, <2>1, <2>2, <2>3, <2>4, Rests, CalmKeeps
<1>7. CASE PlaceCall(o.call)
  <2>1. /\ leg' = [leg EXCEPT ![o.call] = "ringing"]
        /\ outbound' = outbound \cup {o.call} /\ phone' = o.call
    BY <1>7 DEF PlaceCall
  <2>2. TypeOK'
    BY <1>1, <1>2, <1>5, <2>1, Rests DEF RefInv, TypeOK, tapeVars, pastVars
  <2>3. \A q \in ops : q.call \in Calls
    BY OpTypes DEF RefInv, TypeOK
  <2>4. RefsAreRight'
    <3>1. Ringing(phone)'
      BY <1>2, <2>1 DEF Ringing, RefInv, TypeOK
    <3>2. /\ pending' # NoCall => session'[pending'] # "none"
          /\ selected' # NoCall => assignee'[selected'] = Me
      BY <1>1, <1>2 DEF RefInv, RefsAreRight, deskVars
    <3>3. \A q \in ops' : q.op \in {"load", "chunk", "hangup", "remote"} => assignee'[q.call] = Me
      BY <1>1, <1>2, <1>3, <1>5 DEF RefInv, RefsAreRight, deskVars
    <3> QED
      BY <3>1, <3>2, <3>3 DEF RefsAreRight, Ringing
  <2>5. GrantsStand'
    BY <1>1, <1>3, <1>5 DEF RefInv, GrantsStand, deskVars
  <2>6. DeskIsRight'
    BY <1>1, Rests
  <2>7. SUFFICES ASSUME OneAtATime
                 PROVE  LineIsSole' /\ TakenInTurn' /\ LegIsKnown' /\ TalkingCallIsLive'
    BY <2>2, <2>4, <2>5, <2>6 DEF RefInv, DeskIsRight, OneAtATime
  <2>8. LineIsSole /\ TakenInTurn /\ LegIsKnown
    BY <2>7 DEF RefInv
  <2>9. /\ \A x \in Calls : ~Ringing(x) /\ ~Talking(x)
        /\ Desk!MayControl(o.call, Me)
    <3>1. phone = NoCall
      BY <1>1, <2>8 DEF LegIsKnown
    <3> QED
      BY <1>1, <2>8, <3>1, SoftphoneAssumption DEF LineIsSole, TakenInTurn
  <2>10. \A q \in ops' : ~Takes(q) /\ q.op \notin {"hangup", "remote"}
    BY <1>1, <1>2, <1>3, <1>5, <2>8 DEF TakenInTurn, Takes
  <2>11. \A x \in Calls : x # o.call => leg'[x] = leg[x]
    BY <2>1 DEF RefInv, TypeOK
  <2>12. leg'[o.call] = "ringing"
    BY <1>2, <2>1 DEF RefInv, TypeOK
  <2>13. LineIsSole'
    <3>1. \A x \in Calls : leg'[x] \in {"ringing", "answered", "up"} => phone' = x
      BY <2>1, <2>9, <2>11 DEF Ringing, Talking
    <3>2. \A x \in outbound' :
             leg'[x] # "none" /\ (leg'[x] = "ringing" => Desk!MayControl(x, Me)')
      <4>1. Desk!MayControl(o.call, Me)'
        BY <1>1, <2>9 DEF Desk!MayControl, deskVars
      <4>2. \A x \in outbound : x \in Calls /\ leg[x] # "none"
        BY <2>8 DEF LineIsSole, RefInv, TypeOK
      <4> QED
        BY <2>1, <2>9, <2>11, <2>12, <4>1, <4>2 DEF Ringing
    <3> QED
      BY <3>1, <3>2 DEF LineIsSole, Ringing, Talking, Desk!MayControl
  <2>14. TakenInTurn'
    BY <2>10 DEF TakenInTurn, Takes
  <2>15. LegIsKnown'
    BY <2>1, <2>10 DEF LegIsKnown, Takes
  <2>16. TalkingCallIsLive'
    BY <2>9, <2>11, <2>12 DEF TalkingCallIsLive, Talking
  <2> QED
    BY <2>13, <2>14, <2>15, <2>16
<1> QED
  BY <1>6, <1>7 DEF DialReturns

\* A leg that comes in is the only one, and nothing else is under way.
LEMMA RingsKeeps ==
  ASSUME SoftphoneAssumption, RefInv, NEW c \in Calls, Rings(c)
  PROVE  RefInv'
<1> DEFINE m == Ask("register", c)
<1>1. m \in OpStep /\ m.op = "register" /\ m.call = c /\ m.at = "sent"
  BY AskFacts DEF Kinds
<1>2. /\ Settled /\ leg[c] = "none"
      /\ leg' = [leg EXCEPT ![c] = "ringing"] /\ phone' = c /\ alive' = TRUE
      /\ ops' = ops \cup {m}
      /\ UNCHANGED <<deskVars, outbound, selected, voice, pending, ending, tapeVars, pastVars>>
      /\ "second_line" \notin Trials => \A d \in Calls : ~Ringing(d) /\ ~Talking(d)
  BY DEF Rings, Free
<1> HIDE DEF m
<1>3. TypeOK'
  BY <1>1, <1>2, Rests DEF RefInv, TypeOK, tapeVars, pastVars
<1>4. leg'[c] = "ringing" /\ \A x \in Calls : x # c => leg'[x] = leg[x]
  BY <1>2 DEF RefInv, TypeOK
<1>5. RefsAreRight' /\ GrantsStand'
  <2>1. \A q \in ops' : q.op \in {"load", "chunk", "hangup", "remote"} => assignee'[q.call] = Me
    BY <1>1, <1>2 DEF RefInv, RefsAreRight, deskVars
  <2>2. RefsAreRight'
    BY <1>2, <1>4, <2>1 DEF RefInv, RefsAreRight, Ringing, deskVars
  <2>3. GrantsStand'
    BY <1>1, <1>2 DEF RefInv, GrantsStand, deskVars
  <2> QED
    BY <2>2, <2>3
<1>6. DeskIsRight'
  BY <1>2, Rests
<1>7. SUFFICES ASSUME OneAtATime
               PROVE  LineIsSole' /\ TakenInTurn' /\ LegIsKnown' /\ TalkingCallIsLive'
  BY <1>3, <1>5, <1>6 DEF RefInv, DeskIsRight, OneAtATime
<1>8. LineIsSole /\ \A d \in Calls : ~Ringing(d) /\ ~Talking(d)
  BY <1>2, <1>7 DEF RefInv, OneAtATime
<1>9. \A q \in ops' : q = m \/ (q.op \in {"chunk", "load", "segment"} /\ ~Takes(q))
  BY <1>2, <1>7, SettledFacts
<1>10. LineIsSole'
  <2>1. \A x \in Calls : leg'[x] \in {"ringing", "answered", "up"} => phone' = x
    BY <1>2, <1>4, <1>8 DEF Ringing, Talking
  <2>2. \A x \in outbound' : leg'[x] # "none" /\ leg'[x] # "ringing"
    <3>1. \A x \in outbound : x \in Calls /\ leg[x] # "none" /\ ~Ringing(x)
      BY <1>8 DEF LineIsSole, RefInv, TypeOK
    <3> QED
      BY <1>2, <1>4, <3>1 DEF Ringing
  <2> QED
    BY <2>1, <2>2 DEF LineIsSole, Ringing, Talking
<1>11. TakenInTurn'
  BY <1>1, <1>9 DEF TakenInTurn, Takes
<1>12. LegIsKnown'
  <2>1. \A q \in ops' : \/ q.op \in {"chunk", "load", "segment"}
                        \/ q.op = "register" /\ q.call = phone' /\ alive' /\ q.at # "ghost"
    BY <1>1, <1>2, <1>9
  <2> QED
    BY <1>1, <1>2, <2>1 DEF LegIsKnown
<1>13. TalkingCallIsLive'
  BY <1>4, <1>8 DEF TalkingCallIsLive, Talking
<1> QED
  BY <1>10, <1>11, <1>12, <1>13

\* The desk is told of a hang-up: with one line, there is no leg any more.
LEMMA HangUpServedKeeps ==
  ASSUME SoftphoneAssumption, RefInv, NEW o \in ops, HangUpServed(o)
  PROVE  RefInv'
<1>1. /\ o.op \in {"hangup", "remote"} /\ o.at = "hang"
      /\ UNCHANGED <<sipVars, refVars, tapeVars>> /\ PastOK'
      /\ ops' \in {Moved(o, "granted"), Done(o)}
      /\ \/ Desk!HangUp(o.call, Me)
         \/ UNCHANGED deskVars /\ ops' = Done(o)
  BY FailsFacts DEF HangUpServed, Served, Fails, Reaches, Finishes
<1>2. CASE ops' = Done(o) /\ UNCHANGED deskVars
  <2>1. voice' \in {"null", "live", "ended"}
    BY <1>1 DEF RefInv, TypeOK, refVars
  <2> QED
    BY <1>1, <1>2, <2>1, Rests, DoneKeeps DEF refVars
<1>3. CASE Desk!HangUp(o.call, Me)
  <2>1. o.call \in Calls
    BY <1>1, FinishFacts
  <2>2. DeskIsRight' /\ DeskKeeps
    <3>1. DeskIsRight
      BY DEF DeskIsRight, RefInv, TypeOK
    <3> QED
      BY <1>3, <2>1, <3>1, HungUp
  <2>3. /\ ops' \subseteq OpStep
        /\ \A q \in ops' : q \in ops \/ (q.op = o.op /\ q.call = o.call)
    BY <1>1, MovedFacts DEF RefInv, TypeOK, Places
  <2>4. \A q \in ops : q.call \in Calls
    BY OpTypes DEF RefInv, TypeOK
  <2>5. TypeOK'
    BY <1>1, <2>2, <2>3 DEF DeskIsRight, RefInv, TypeOK, sipVars, refVars, tapeVars, PastOK
  <2>6. RefsAreRight'
    <3>1. \A q \in ops' : q.op \in {"load", "chunk", "hangup", "remote"} => assignee'[q.call] = Me
      BY <1>1, <2>2, <2>3, <2>4 DEF RefInv, RefsAreRight, DeskKeeps
    <3>2. phone' # NoCall => Ringing(phone)' \/ Talking(phone)'
      BY <1>1 DEF RefInv, RefsAreRight, Ringing, Talking, sipVars
    <3>3. /\ pending' # NoCall => session'[pending'] # "none"
          /\ selected' # NoCall => assignee'[selected'] = Me
      BY <1>1, <2>2 DEF RefInv, TypeOK, RefsAreRight, DeskKeeps, refVars
    <3> QED
      BY <3>1, <3>2, <3>3 DEF RefsAreRight, Ringing, Talking
  <2>7. GrantsStand'
    BY <1>1, <2>2, <2>3, <2>4 DEF RefInv, GrantsStand, DeskKeeps
  <2>8. SUFFICES ASSUME OneAtATime
                 PROVE  LineIsSole' /\ TakenInTurn' /\ LegIsKnown' /\ TalkingCallIsLive'
    BY <2>2, <2>5, <2>6, <2>7 DEF RefInv, DeskIsRight, OneAtATime
  <2>9. LineIsSole /\ TakenInTurn
    BY <2>8 DEF RefInv
  <2>10. phone' = NoCall /\ \A q \in ops : q.op # "dial"
    BY <1>1, <2>8, FinishFacts DEF sipVars
  <2>11. \A x \in Calls : ~Ringing(x) /\ ~Talking(x)
    BY <1>1, <2>9, <2>10, SoftphoneAssumption DEF LineIsSole, sipVars
  <2>12. LineIsSole'
    BY <1>1, <2>9, <2>11 DEF LineIsSole, Ringing, Talking, sipVars, RefInv, TypeOK
  <2>13. TakenInTurn'
    BY <1>1, <2>3, <2>9, <2>10 DEF TakenInTurn, Takes
  <2>14. LegIsKnown'
    BY <2>10 DEF LegIsKnown
  <2>15. TalkingCallIsLive'
    BY <1>1, <2>11 DEF TalkingCallIsLive, Talking, sipVars
  <2> QED
    BY <2>12, <2>13, <2>14, <2>15
<1> QED
  BY <1>1, <1>2, <1>3

-----------------------------------------------------------------------------
(* The audio. *)

TapeInv == DialIsNew /\ AudioIsOfLegs /\ AudioKeptOnce /\ TapeIsComing

\* Handlers that finish a call and hold no audio may go on or end; those that hold some
\* stay.  What is new, if anything, is fresh.
GoesOn(q) ==
    \/ q \in ops
    \/ \E p \in ops : Finishes(p) /\ p.call = q.call /\ ~Holds(p) /\ ~Holds(q)

HandlersGoOn(fresh) ==
    /\ \A q \in ops' : Finishes(q) => GoesOn(q) \/ q \in fresh
    /\ \A p \in ops : Holds(p) => p \in ops'

DialsGoOn ==
    \A q \in ops' : q.op = "dial" =>
        \/ q \in ops
        \/ \E p \in ops : p.op = "dial" /\ p.call = q.call /\ p \notin ops' /\ ops' \subseteq (ops \ {p}) \cup {q}

\* A leg that was up stays so or is over, and one that a call is dialled for is not there.
LegsStay ==
    \A x \in Calls :
        /\ leg[x] \in {"up", "over"} => leg'[x] \in {"up", "over"}
        /\ leg[x] = "none" /\ (\E q \in ops' : q.op = "dial" /\ q.call = x) => leg'[x] = "none"

\* A call ends only when a handler that has no audio to upload tells the desk.
CallsEndLast ==
    \A x \in Calls : session'[x] = "ended" =>
        session[x] = "ended" \/ \E p \in ops : Finishes(p) /\ ~Holds(p) /\ p.call = x

LEMMA DialsKeep ==
  ASSUME RefInv, DialIsNew, DialsGoOn, LegsStay
  PROVE  DialIsNew'
<1>1. \A q \in ops : q.call \in Calls
  BY OpTypes DEF RefInv, TypeOK
<1>2. ASSUME NEW q \in ops', q.op = "dial"
      PROVE  leg'[q.call] = "none"
  <2>1. q.call \in Calls /\ leg[q.call] = "none"
    BY <1>1, <1>2 DEF DialIsNew, DialsGoOn
  <2> QED
    BY <1>2, <2>1 DEF LegsStay
<1>3. ASSUME NEW o \in ops', NEW q \in ops', o.op = "dial", q.op = "dial"
      PROVE  q = o
  <2>1. CASE o \in ops /\ q \in ops
    BY <1>3, <2>1 DEF DialIsNew
  <2>2. CASE o \notin ops \/ q \notin ops
    BY <1>3, <2>2 DEF DialIsNew, DialsGoOn
  <2> QED
    BY <2>1, <2>2
<1> QED
  BY <1>2, <1>3 DEF DialIsNew

\* Audio and recorder are left alone.
LEMMA TapeRests ==
  ASSUME RefInv, TapeInv, HandlersGoOn({}), DialsGoOn, LegsStay, CallsEndLast,
         UNCHANGED <<recording, capture, taped>>, spoilt \subseteq spoilt'
  PROVE  TapeInv'
<1>1. DialIsNew'
  BY DialsKeep DEF TapeInv
<1>2. \A q \in ops' : Holds(q) => q \in ops
  BY DEF HandlersGoOn, GoesOn, Holds
<1>3. taped \subseteq Calls
  BY DEF RefInv, TypeOK
<1>4. AudioIsOfLegs'
  <2>1. \A c \in taped' : leg'[c] \in {"up", "over"}
    BY <1>3 DEF TapeInv, AudioIsOfLegs, LegsStay
  <2>2. \A o \in ops' : Holds(o) => o.audio \in taped
    BY <1>2 DEF TapeInv, AudioIsOfLegs
  <2> QED
    BY <2>1, <2>2 DEF TapeInv, AudioIsOfLegs, Holds, Finishes
<1>5. AudioKeptOnce'
  BY <1>2 DEF TapeInv, AudioKeptOnce, Holds, Finishes
<1>6. TapeIsComing'
  <2>1. SUFFICES ASSUME NEW c \in taped \ spoilt, recording[c] # c
        PROVE  /\ session'[c] # "ended"
               /\ \/ capture = c /\ \A q \in ops' : Finishes(q) => q.call # c
                  \/ \E o \in ops' : /\ Holds(o) /\ o.call = c /\ o.audio = c
                                     /\ \A q \in ops' : Finishes(q) /\ q.call = c => q = o
    BY DEF TapeIsComing, Holds, Finishes
  <2>2. /\ session[c] # "ended"
        /\ \/ capture = c /\ \A q \in ops : Finishes(q) => q.call # c
           \/ \E o \in ops : /\ Holds(o) /\ o.call = c /\ o.audio = c
                             /\ \A q \in ops : Finishes(q) /\ q.call = c => q = o
    BY <2>1 DEF TapeInv, TapeIsComing
  <2>3. session'[c] # "ended"
    BY <1>3, <2>1, <2>2 DEF CallsEndLast
  <2>4. CASE capture = c /\ \A q \in ops : Finishes(q) => q.call # c
    BY <2>3, <2>4 DEF HandlersGoOn, GoesOn
  <2>5. ASSUME NEW o \in ops, Holds(o), o.call = c, o.audio = c,
               \A q \in ops : Finishes(q) /\ q.call = c => q = o
        PROVE  o \in ops' /\ \A q \in ops' : Finishes(q) /\ q.call = c => q = o
    BY <2>5 DEF HandlersGoOn, GoesOn
  <2> QED
    BY <2>2, <2>3, <2>4, <2>5
<1> QED
  BY <1>1, <1>4, <1>5, <1>6 DEF TapeInv

\* A handler starts to finish call d, and takes what the recorder holds.
LEMMA TapeFinishes ==
  ASSUME SoftphoneAssumption, RefInv, TapeInv,
         NEW d \in Calls, NEW m \in ops', Finishes(m), m.call = d, m.audio = capture,
         m.at = IF capture = NoCall THEN "hang" ELSE "drain",
         HandlersGoOn({m}), DialsGoOn, LegsStay, UNCHANGED session,
         UNCHANGED <<recording, taped>>, capture' = NoCall, spoilt' = spoilt \cup Spoiling'
  PROVE  TapeInv'
<1>1. DialIsNew'
  BY DialsKeep DEF TapeInv
<1>2. taped \subseteq Calls /\ NoCall \notin taped
  BY SoftphoneAssumption DEF RefInv, TypeOK
<1>3. /\ Holds(m) <=> capture # NoCall
      /\ \A q \in ops' : Holds(q) => q \in ops \/ (q = m /\ capture # NoCall)
  BY DEF HandlersGoOn, GoesOn, Holds
<1>4. \A o \in ops : Holds(o) => o.audio # capture /\ \A c \in Calls : recording[c] # o.audio
  BY DEF TapeInv, AudioKeptOnce
<1>5. AudioIsOfLegs'
  <2>1. \A c \in taped' : leg'[c] \in {"up", "over"}
    BY <1>2 DEF TapeInv, AudioIsOfLegs, LegsStay
  <2>2. \A o \in ops' : Holds(o) => o.audio \in taped
    BY <1>3 DEF TapeInv, AudioIsOfLegs
  <2> QED
    BY <2>1, <2>2 DEF TapeInv, AudioIsOfLegs, Holds, Finishes
<1>6. AudioKeptOnce'
  <2>1. \A o, q \in ops' : Holds(o) /\ Holds(q) /\ o.audio = q.audio => o = q
    BY <1>3, <1>4 DEF TapeInv, AudioKeptOnce
  <2>2. \A o \in ops', c \in Calls : Holds(o) => o.audio \notin {capture', recording[c]}
    <3>1. ASSUME NEW o \in ops', NEW c \in Calls, Holds(o)
          PROVE  o.audio # NoCall /\ o.audio # recording[c]
      <4>1. o.audio # NoCall
        BY <1>2, <1>3, <3>1 DEF TapeInv, AudioIsOfLegs
      <4>2. capture # NoCall => recording[c] # capture
        BY DEF TapeInv, AudioKeptOnce
      <4> QED
        BY <1>3, <1>4, <3>1, <4>1, <4>2
    <3> QED
      BY <3>1
  <2> QED
    BY <2>1, <2>2 DEF TapeInv, AudioKeptOnce, Holds, Finishes
<1>7. TapeIsComing'
  <2>1. SUFFICES ASSUME NEW c \in taped, c \notin spoilt', recording[c] # c
        PROVE  /\ session[c] # "ended"
               /\ \E o \in ops' : /\ Holds(o) /\ o.call = c /\ o.audio = c
                                  /\ \A q \in ops' : Finishes(q) /\ q.call = c => q = o
    BY DEF TapeIsComing, Holds, Finishes
  <2>2. /\ c \notin spoilt /\ c # NoCall
        /\ m.audio = c => d = c
        /\ \A p, q \in ops' : Finishes(p) /\ Finishes(q) /\ p.call = c /\ q.call = c => p = q
    BY <1>2, <2>1 DEF Spoiling, Finishes
  <2>3. /\ session[c] # "ended"
        /\ \/ capture = c /\ \A q \in ops : Finishes(q) => q.call # c
           \/ \E o \in ops : /\ Holds(o) /\ o.call = c /\ o.audio = c
    BY <2>1, <2>2 DEF TapeInv, TapeIsComing
  <2>4. CASE capture = c
    <3>1. Holds(m) /\ m.call = c /\ m.audio = c
      BY <1>3, <2>2, <2>4
    <3> QED
      BY <2>2, <2>3, <3>1
  <2>5. ASSUME NEW o \in ops, Holds(o), o.call = c, o.audio = c
        PROVE  o \in ops' /\ \A q \in ops' : Finishes(q) /\ q.call = c => q = o
    BY <2>2, <2>5 DEF HandlersGoOn, Holds
  <2> QED
    BY <2>3, <2>4, <2>5
<1> QED
  BY <1>1, <1>5, <1>6, <1>7 DEF TapeInv

\* The handler o that holds audio is done with it: it is stored with its call, or is spoilt.
LEMMA TapeGoes ==
  ASSUME SoftphoneAssumption, RefInv, TapeInv, NEW o \in ops, Holds(o),
         \A q \in ops' : \/ q \in ops /\ q # o
                         \/ q.op = o.op /\ q.call = o.call /\ ~Holds(q),
         \A q \in ops : q = o \/ q \in ops',
         \/ UNCHANGED recording /\ o.audio \in spoilt'
         \/ /\ recording[o.call] = NoCall
            /\ recording' = [recording EXCEPT ![o.call] = o.audio],
         UNCHANGED <<leg, session, capture, taped>>, spoilt \subseteq spoilt'
  PROVE  TapeInv'
<1>1. /\ o.call \in Calls /\ o.op # "dial"
      /\ taped \subseteq Calls /\ recording \in [Calls -> Calls \cup {NoCall}]
  BY OpTypes DEF RefInv, TypeOK, Holds, Finishes
<1>2. DialIsNew'
  BY <1>1 DEF TapeInv, DialIsNew
<1>3. o.audio \in taped /\ o.audio # NoCall
  BY <1>1, SoftphoneAssumption DEF TapeInv, AudioIsOfLegs
<1>4. \A q \in ops' : Holds(q) => q \in ops /\ q # o /\ q.audio # o.audio
  BY DEF TapeInv, AudioKeptOnce
<1>5. \A c \in Calls : recording'[c] \in {recording[c], o.audio}
  BY <1>1
<1>6. AudioIsOfLegs'
  <2>1. \A c \in Calls : recording'[c] \in taped \cup {NoCall}
    BY <1>3, <1>5 DEF TapeInv, AudioIsOfLegs
  <2>2. \A q \in ops' : Holds(q) => q.audio \in taped
    BY <1>4 DEF TapeInv, AudioIsOfLegs
  <2> QED
    BY <2>1, <2>2 DEF TapeInv, AudioIsOfLegs, Holds, Finishes
<1>7. AudioKeptOnce'
  <2>1. \A c \in Calls : recording[c] # o.audio /\ capture # o.audio
    BY DEF TapeInv, AudioKeptOnce
  <2>2. \A c, d \in Calls : recording'[c] # NoCall /\ recording'[c] = recording'[d] => c = d
    BY <1>1, <2>1 DEF TapeInv, AudioKeptOnce
  <2>3. \A p, q \in ops' : Holds(p) /\ Holds(q) /\ p.audio = q.audio => p = q
    BY <1>4 DEF TapeInv, AudioKeptOnce
  <2>4. \A q \in ops', c \in Calls : Holds(q) => q.audio \notin {capture, recording'[c]}
    BY <1>4, <1>5 DEF TapeInv, AudioKeptOnce
  <2>5. \A c \in Calls : capture # NoCall => recording'[c] # capture
    BY <1>5, <2>1 DEF TapeInv, AudioKeptOnce
  <2> QED
    BY <2>2, <2>3, <2>4, <2>5 DEF AudioKeptOnce, Holds, Finishes
<1>8. TapeIsComing'
  <2>1. SUFFICES ASSUME NEW c \in taped, c \notin spoilt', recording'[c] # c
        PROVE  /\ session[c] # "ended"
               /\ \/ capture = c /\ \A q \in ops' : Finishes(q) => q.call # c
                  \/ \E p \in ops' : /\ Holds(p) /\ p.call = c /\ p.audio = c
                                     /\ \A q \in ops' : Finishes(q) /\ q.call = c => q = p
    BY DEF TapeIsComing, Holds, Finishes
  <2>2. c \in Calls /\ c \notin spoilt /\ c # NoCall
    BY <1>1, <2>1, SoftphoneAssumption
  <2>3. recording[c] # c
    BY <1>1, <2>1, <2>2
  <2>4. /\ session[c] # "ended"
        /\ \/ capture = c /\ \A q \in ops : Finishes(q) => q.call # c
           \/ \E p \in ops : /\ Holds(p) /\ p.call = c /\ p.audio = c
                             /\ \A q \in ops : Finishes(q) /\ q.call = c => q = p
    BY <2>1, <2>2, <2>3 DEF TapeInv, TapeIsComing
  <2>5. CASE capture = c /\ \A q \in ops : Finishes(q) => q.call # c
    BY <2>4, <2>5 DEF Holds, Finishes
  <2>6. ASSUME NEW p \in ops, Holds(p), p.call = c, p.audio = c,
               \A q \in ops : Finishes(q) /\ q.call = c => q = p
        PROVE  p \in ops' /\ \A q \in ops' : Finishes(q) /\ q.call = c => q = p
    <3>1. p # o
      BY <1>1, <2>1, <2>2, <2>6
    <3>2. o.call # c
      BY <2>6, <3>1 DEF Holds
    <3> QED
      BY <2>6, <3>1, <3>2
  <2> QED
    BY <2>4, <2>5, <2>6
<1> QED
  BY <1>2, <1>6, <1>7, <1>8 DEF TapeInv

\* No leg changes, and no handler that finishes or dials a call starts or moves on.
LEMMA QuietTape ==
  ASSUME RefInv, TapeInv, UNCHANGED <<leg, recording, capture, taped, spoilt>>, LinesStayUp,
         \A q \in ops' : q \in ops \/ q.op \notin {"hangup", "remote", "dial"},
         \A q \in ops : Finishes(q) => q \in ops'
  PROVE  TapeInv'
<1>1. HandlersGoOn({})
  BY DEF HandlersGoOn, GoesOn, Holds, Finishes
<1>2. DialsGoOn /\ LegsStay
  BY DEF DialsGoOn, LegsStay
<1>3. CallsEndLast
  BY DEF CallsEndLast, LinesStayUp
<1> QED
  BY <1>1, <1>2, <1>3, TapeRests

\* A handler that neither finishes nor dials a call moves on, or ends; a load may follow.
LEMMA AskedTape ==
  ASSUME RefInv, TapeInv, UNCHANGED <<leg, recording, capture, taped, spoilt>>, LinesStayUp,
         NEW o \in ops, o.op \notin {"hangup", "remote", "dial"},
         \A q \in ops' : q \in ops \/ q.op \in {o.op, "load"},
         \A q \in ops : q = o \/ q \in ops'
  PROVE  TapeInv'
BY QuietTape DEF Finishes

LEMMA MovedOrDone ==
  ASSUME RefInv, NEW o \in ops, NEW at \in Places \ {"drain", "put"},
         ops' \in {Moved(o, at), Done(o)}
  PROVE  /\ \A q \in ops' : q \in ops \/ q.op = o.op
         /\ \A q \in ops : q = o \/ q \in ops'
BY MovedFacts DEF RefInv, TypeOK

LEMMA ServedTape ==
  ASSUME SoftphoneAssumption, RefInv, TapeInv, NEW o \in ops,
         RegisterServed(o) \/ ClaimServed(o) \/ RejectServed(o) \/ WrapUpServed(o)
  PROVE  TapeInv'
<1>1. DeskIsRight /\ o.call \in Calls
  BY OpTypes DEF DeskIsRight, RefInv, TypeOK
<1>2. /\ UNCHANGED <<leg, recording, capture, taped, spoilt>>
      /\ o.op \notin {"hangup", "remote", "dial"}
      /\ \/ Desk!RegisterLiveInbound(o.call, Me) \/ Desk!Claim(o.call, Me)
         \/ Desk!Reject(o.call, Me) \/ Desk!WrapUp(o.call) \/ UNCHANGED deskVars
  BY DEF RegisterServed, ClaimServed, RejectServed, WrapUpServed, Served, IsAt, sipVars, tapeVars
<1>3. LinesStayUp
  BY <1>1, <1>2, Registered, Claimed, Rejected, WrappedUp, DeskRests
<1>4. PICK at \in {"granted", "refused"} : ops' \in {Moved(o, at), Done(o)}
  BY DEF RegisterServed, ClaimServed, RejectServed, WrapUpServed, Served, Fails
<1>5. /\ \A q \in ops' : q \in ops \/ q.op = o.op
      /\ \A q \in ops : q = o \/ q \in ops'
  BY <1>4, MovedOrDone DEF Places
<1> QED
  BY <1>2, <1>3, <1>5, AskedTape

LEMMA OfferedTape ==
  ASSUME RefInv, TapeInv, NEW o \in ops, Offered(o)
  PROVE  TapeInv'
<1>1. /\ o.op = "register" /\ ops' \in {Moved(o, "ghost"), Done(o)}
      /\ UNCHANGED <<deskVars, leg, recording, capture, taped, spoilt>>
  BY DEF Offered, IsAt, sipVars, tapeVars, pastVars
<1>2. /\ \A q \in ops' : q \in ops \/ q.op = o.op
      /\ \A q \in ops : q = o \/ q \in ops'
  BY <1>1, MovedOrDone DEF Places
<1> QED
  BY <1>1, <1>2, Rests, AskedTape

LEMMA ClaimReturnsTape ==
  ASSUME RefInv, TapeInv, NEW o \in ops, ClaimReturns(o)
  PROVE  TapeInv'
<1>1. /\ o.op = "claim" /\ UNCHANGED <<deskVars, leg, recording, capture, taped, spoilt>>
      /\ ops' \in {Moved(o, "fetch") \cup {Ask("load", o.call)}, Done(o) \cup {Ask("load", o.call)}}
  BY DEF ClaimReturns, IsAt, sipVars, tapeVars, pastVars
<1>2. Ask("load", o.call).op = "load"
  BY AskFacts
<1>3. /\ \A q \in ops' : q \in ops \/ q.op \in {o.op, "load"}
      /\ \A q \in ops : q = o \/ q \in ops'
  BY <1>1, <1>2, MovedFacts DEF Places, RefInv, TypeOK
<1> QED
  BY <1>1, <1>3, Rests, AskedTape

LEMMA OverTape ==
  ASSUME RefInv, TapeInv, NEW o \in ops, FetchFails(o) \/ Loaded(o) \/ WrapUpReturns(o)
  PROVE  TapeInv'
<1>1. /\ o.op \notin {"hangup", "remote", "dial"} /\ ops' = Done(o)
      /\ UNCHANGED <<deskVars, leg, recording, capture, taped, spoilt>>
  BY DEF FetchFails, Loaded, WrapUpReturns, Fails, IsAt, sipVars, tapeVars, pastVars
<1> QED
  BY <1>1, Rests, AskedTape DEF Done

LEMMA SelectedTape ==
  ASSUME RefInv, TapeInv, NEW o \in ops, SegmentStops(o) \/ ChunkServed(o)
  PROVE  TapeInv'
<1>1. PICK op \in {"load", "chunk"}, at \in Places :
         ops' \in {Done(o) \cup ForSelected(op, at, o), Done(o)}
  BY OpTypes DEF SegmentStops, ChunkServed, Pending, Places, RefInv, TypeOK
<1>2. /\ o.op \in {"segment", "chunk"}
      /\ UNCHANGED <<deskVars, leg, recording, capture, taped, spoilt>>
  BY DEF SegmentStops, ChunkServed, sipVars, pastVars
<1>3. \A q \in ForSelected(op, at, o) : q.op = op
  BY OpFacts DEF ForSelected
<1>4. \A q \in ops' : q \in ops \/ q.op \notin {"hangup", "remote", "dial"}
  BY <1>1, <1>3 DEF Done
<1>5. \A q \in ops : Finishes(q) => q \in ops'
  BY <1>1, <1>2 DEF Done, Finishes
<1> QED
  BY <1>2, <1>4, <1>5, Rests, QuietTape

\* The agent or the page starts m, which finishes nothing.
LEMMA AddedTape ==
  ASSUME RefInv, TapeInv, NEW m, m.op \notin {"hangup", "remote", "dial"}, ops' = ops \cup {m},
         UNCHANGED <<deskVars, leg, recording, capture, taped, spoilt>>
  PROVE  TapeInv'
BY Rests, QuietTape

LEMMA StartedTape ==
  ASSUME RefInv, TapeInv,
         \/ Refresh \/ \E s \in Speakers : SegmentEnds(s)
         \/ \E c \in Calls : ClaimClick(c) \/ Select(c) \/ WrapUpClick(c)
  PROVE  TapeInv'
<1>1. /\ UNCHANGED <<deskVars, leg, recording, capture, taped, spoilt>>
      /\ \/ \E s \in Speakers : ops' = ops \cup {Op("segment", capture, "timed", capture, s)}
         \/ \E op \in {"claim", "load", "wrapup"}, c \in Calls : ops' = ops \cup {Ask(op, c)}
  BY DEF Refresh, SegmentEnds, ClaimClick, Select, WrapUpClick, Start, sipVars, tapeVars,
         pastVars, RefInv, TypeOK
<1>2. ASSUME NEW s \in Speakers, ops' = ops \cup {Op("segment", capture, "timed", capture, s)}
      PROVE  TapeInv'
  BY <1>1, <1>2, OpFacts, AddedTape
<1>3. ASSUME NEW op \in {"claim", "load", "wrapup"}, NEW c \in Calls, ops' = ops \cup {Ask(op, c)}
      PROVE  TapeInv'
  BY <1>1, <1>3, AskFacts, AddedTape
<1> QED
  BY <1>1, <1>2, <1>3

LEMMA QueuedTape ==
  ASSUME SoftphoneAssumption, RefInv, TapeInv, NEW c \in Calls, Queued(c)
  PROVE  TapeInv'
<1>1. LinesStayUp
  <2>1. DeskIsRight
    BY DEF DeskIsRight, RefInv, TypeOK
  <2>2. (\E q \in BOOLEAN : Desk!CreateConversation(c, "chat", q)) \/ Desk!RingInbound(c)
    BY DEF Queued
  <2> QED
    BY <2>1, <2>2, NewRow
<1>2. UNCHANGED <<leg, recording, capture, taped, spoilt, ops>>
  BY DEF Queued, sipVars, tapeVars, pastVars
<1> QED
  BY <1>1, <1>2, QuietTape

LEMMA HangUpReturnsTape ==
  ASSUME RefInv, TapeInv, NEW o \in ops, HangUpReturns(o)
  PROVE  TapeInv'
<1> DEFINE loads == {Ask("load", c) :
                        c \in (IF o.op = "hangup" THEN {o.call} ELSE {selected}) \ {NoCall}}
<1>1. /\ Finishes(o) /\ ~Holds(o) /\ ops' = Done(o) \cup loads
      /\ UNCHANGED <<deskVars, leg, recording, capture, taped, spoilt>>
  BY DEF HangUpReturns, Reaches, Holds, sipVars, tapeVars, pastVars
<1>2. \A q \in loads : q.op = "load"
  BY AskFacts
<1> HIDE DEF loads
<1>3. HandlersGoOn({}) /\ DialsGoOn /\ LegsStay
  BY <1>1, <1>2 DEF HandlersGoOn, GoesOn, DialsGoOn, LegsStay, Done, Finishes
<1>4. CallsEndLast
  BY <1>1, Rests DEF CallsEndLast, LinesStayUp
<1> QED
  BY <1>1, <1>3, <1>4, TapeRests

\* The desk is told that the call has ended by a handler that has nothing to upload.
LEMMA HangUpServedTape ==
  ASSUME SoftphoneAssumption, RefInv, TapeInv, NEW o \in ops, HangUpServed(o)
  PROVE  TapeInv'
<1>1. /\ Finishes(o) /\ ~Holds(o) /\ ops' \in {Moved(o, "granted"), Done(o)}
      /\ UNCHANGED <<leg, recording, capture, taped, spoilt>>
      /\ Desk!HangUp(o.call, Me) \/ UNCHANGED deskVars
  BY DEF HangUpServed, Reaches, Holds, Served, Fails, sipVars, tapeVars
<1>2. HandlersGoOn({}) /\ DialsGoOn /\ LegsStay
  BY <1>1, MovedFacts DEF HandlersGoOn, GoesOn, DialsGoOn, LegsStay, Holds, Finishes, Places,
     RefInv, TypeOK
<1>3. CallsEndLast
  <2>1. CASE Desk!HangUp(o.call, Me)
    BY <1>1, <2>1 DEF CallsEndLast, Desk!HangUp, RefInv, TypeOK, Desk!TypeOK
  <2>2. CASE UNCHANGED deskVars
    BY <2>2, Rests DEF CallsEndLast, LinesStayUp
  <2> QED
    BY <1>1, <2>1, <2>2
<1> QED
  BY <1>1, <1>2, <1>3, TapeRests

\* A call is being dialled, ...
LEMMA DialServedTape ==
  ASSUME SoftphoneAssumption, RefInv, TapeInv, NEW o \in ops, DialServed(o)
  PROVE  TapeInv'
<1>1. /\ o.op = "dial" /\ o.at = "sent" /\ ops' \in {Moved(o, "granted"), Done(o)}
      /\ UNCHANGED <<leg, recording, capture, taped, spoilt>>
      /\ Desk!Dial(o.call, Me) \/ UNCHANGED deskVars
  BY DEF DialServed, IsAt, Served, Fails, sipVars, tapeVars
<1>2. DeskIsRight /\ o.call \in Calls
  BY OpTypes DEF DeskIsRight, RefInv, TypeOK
<1>3. HandlersGoOn({}) /\ LegsStay
  BY <1>1, MovedFacts DEF HandlersGoOn, GoesOn, LegsStay, Holds, Finishes, Places, RefInv, TypeOK
<1>4. CallsEndLast
  BY <1>1, <1>2, Dialled, Rests DEF CallsEndLast, LinesStayUp
<1>5. DialsGoOn
  <2>1. CASE ops' = Done(o)
    BY <2>1 DEF DialsGoOn, Done
  <2>2. CASE ops' = Moved(o, "granted")
    <3> DEFINE m == Op(o.op, o.call, "granted", o.audio, o.by)
    <3>1. m.call = o.call /\ m # o /\ ops' = (ops \ {o}) \cup {m}
      BY <1>1, <2>2, OpFacts DEF Moved
    <3> HIDE DEF m
    <3> QED
      BY <1>1, <3>1 DEF DialsGoOn
  <2> QED
    BY <1>1, <2>1, <2>2
<1> QED
  BY <1>1, <1>3, <1>4, <1>5, TapeRests

LEMMA DialReturnsTape ==
  ASSUME SoftphoneAssumption, RefInv, TapeInv, NEW o \in ops, DialReturns(o)
  PROVE  TapeInv'
<1>1. /\ o.op = "dial" /\ ops' = Done(o) \cup {Ask("load", o.call)}
      /\ UNCHANGED <<deskVars, recording, capture, taped, spoilt>>
      /\ PlaceCall(o.call) \/ UNCHANGED leg
  BY DEF DialReturns, IsAt, sipVars, tapeVars, pastVars
<1>2. /\ o.call \in Calls /\ leg[o.call] = "none" /\ \A q \in ops : q.op = "dial" => q = o
  BY <1>1, OpTypes DEF TapeInv, DialIsNew, RefInv, TypeOK
<1>3. \A q \in ops' : (q \in ops /\ q # o) \/ q.op = "load"
  BY <1>1, AskFacts DEF Done
<1>4. HandlersGoOn({}) /\ DialsGoOn
  BY <1>1, <1>3 DEF HandlersGoOn, GoesOn, DialsGoOn, Holds, Finishes, Done
<1>5. LegsStay
  BY <1>1, <1>2, <1>3 DEF LegsStay, PlaceCall, RefInv, TypeOK
<1>6. CallsEndLast
  BY <1>1, Rests DEF CallsEndLast, LinesStayUp
<1> QED
  BY <1>1, <1>4, <1>5, <1>6, TapeRests

LEMMA DialClickTape ==
  ASSUME RefInv, TapeInv, NEW c \in Calls, DialClick(c)
  PROVE  TapeInv'
<1>1. /\ ops' = ops \cup {Ask("dial", c)} /\ leg[c] = "none" /\ \A o \in ops : o.op # "dial"
      /\ UNCHANGED <<deskVars, leg, recording, capture, rolling, taped, spoilt>>
  BY DEF DialClick, Free, Start, sipVars, tapeVars, pastVars
<1>2. Ask("dial", c).op = "dial" /\ Ask("dial", c).call = c
  BY AskFacts
<1>3. DialIsNew'
  BY <1>1, <1>2 DEF DialIsNew
<1>4. \A q \in ops' : Holds(q) \/ Finishes(q) => q \in ops
  BY <1>1, <1>2 DEF Holds, Finishes
<1>5. AudioIsOfLegs'
  BY <1>1, <1>4 DEF TapeInv, AudioIsOfLegs, Holds, Finishes
<1>6. AudioKeptOnce'
  BY <1>1, <1>4 DEF TapeInv, AudioKeptOnce, Holds, Finishes
<1>7. session' = session
  BY <1>1 DEF deskVars
<1>8. TapeIsComing'
  <2>1. ASSUME NEW x \in taped \ spoilt, recording[x] # x
        PROVE  /\ session[x] # "ended"
               /\ \/ capture = x /\ \A q \in ops' : Finishes(q) => q.call # x
                  \/ \E o \in ops' : /\ Holds(o) /\ o.call = x /\ o.audio = x
                                     /\ \A q \in ops' : Finishes(q) /\ q.call = x => q = o
    BY <1>1, <1>4, <2>1 DEF TapeInv, TapeIsComing
  <2> QED
    BY <1>1, <1>7, <2>1 DEF TapeIsComing, Holds, Finishes
<1> QED
  BY <1>3, <1>5, <1>6, <1>8 DEF TapeInv

\* ... rings, is answered, ...
LEMMA RingsTape ==
  ASSUME RefInv, TapeInv, NEW c \in Calls, Rings(c)
  PROVE  TapeInv'
<1>1. /\ ops' = ops \cup {Ask("register", c)} /\ leg[c] = "none" /\ \A o \in ops : o.call # c
      /\ leg' = [leg EXCEPT ![c] = "ringing"]
      /\ UNCHANGED <<deskVars, recording, capture, taped, spoilt>>
  BY DEF Rings, Free, tapeVars, pastVars
<1>2. Ask("register", c).op = "register"
  BY AskFacts
<1>3. HandlersGoOn({}) /\ DialsGoOn
  BY <1>1, <1>2 DEF HandlersGoOn, GoesOn, DialsGoOn, Holds, Finishes
<1>4. LegsStay
  BY <1>1, <1>2 DEF LegsStay, RefInv, TypeOK
<1>5. CallsEndLast
  BY <1>1, Rests DEF CallsEndLast, LinesStayUp
<1> QED
  BY <1>1, <1>3, <1>4, <1>5, TapeRests

LEMMA AnsweredTape ==
  ASSUME RefInv, TapeInv,
         (\E o \in ops : Answered(o)) \/ (\E c \in Calls : FarEndAnswers(c))
  PROVE  TapeInv'
<1>1. /\ UNCHANGED <<deskVars, recording, capture, taped, spoilt>>
      /\ \A q \in ops' : q \in ops
      /\ \A q \in ops : Finishes(q) => q \in ops'
  BY DEF Answered, FarEndAnswers, Done, IsAt, Finishes, tapeVars, pastVars
<1>2. \A x \in Calls : leg'[x] = leg[x] \/ (leg[x] = "ringing" /\ leg'[x] = "answered")
  BY DEF Answered, AnswerLeg, FarEndAnswers, Ringing, RefInv, TypeOK
<1>3. HandlersGoOn({}) /\ DialsGoOn /\ LegsStay
  BY <1>1, <1>2 DEF HandlersGoOn, GoesOn, DialsGoOn, LegsStay, Holds
<1>4. CallsEndLast
  BY <1>1, Rests DEF CallsEndLast, LinesStayUp
<1> QED
  BY <1>1, <1>3, <1>4, TapeRests

\* ... and is recorded: its audio is new.
LEMMA MediaTape ==
  ASSUME SoftphoneAssumption, RefInv, TapeInv, NEW c \in Calls, Media(c)
  PROVE  TapeInv'
<1>1. /\ leg[c] = "answered" /\ leg' = [leg EXCEPT ![c] = "up"]
      /\ UNCHANGED <<deskVars, recording, ops>>
  BY DEF Media
<1>2. session' = session
  BY <1>1 DEF deskVars
<1>3. c \notin taped /\ taped \subseteq Calls /\ c # NoCall
  BY <1>1, SoftphoneAssumption DEF TapeInv, AudioIsOfLegs, RefInv, TypeOK
<1>4. DialIsNew'
  <2>1. \A q \in ops : q.op = "dial" => q.call \in Calls /\ q.call # c
    BY <1>1, OpTypes DEF TapeInv, DialIsNew, RefInv, TypeOK
  <2> QED
    BY <1>1, <2>1 DEF TapeInv, DialIsNew, RefInv, TypeOK
<1>5. CASE UNCHANGED <<capture, taped, spoilt>>
  <2>1. HandlersGoOn({}) /\ DialsGoOn /\ CallsEndLast
    BY <1>1, <1>2 DEF HandlersGoOn, GoesOn, DialsGoOn, CallsEndLast
  <2>2. LegsStay
    BY <1>1 DEF LegsStay, RefInv, TypeOK
  <2> QED
    BY <1>1, <1>5, <2>1, <2>2, TapeRests
<1>6. CASE capture = NoCall /\ StartCapture(c)
  <2>1. /\ capture' = c /\ taped' = taped \cup {c}
        /\ spoilt' = IF session[c] = "ended" \/ \E o \in ops : Finishes(o) /\ o.call = c
                     THEN spoilt \cup {c} ELSE spoilt
    BY <1>6 DEF StartCapture
  <2>2. /\ \A x \in Calls : recording[x] \in taped \cup {NoCall}
        /\ \A o \in ops : Holds(o) => o.audio \in taped
        /\ \A x \in taped : leg[x] \in {"up", "over"}
    BY DEF TapeInv, AudioIsOfLegs
  <2>3. AudioIsOfLegs'
    <3>1. \A x \in taped' : leg'[x] \in {"up", "over"}
      BY <1>1, <1>3, <2>1, <2>2 DEF RefInv, TypeOK
    <3> QED
      BY <1>1, <2>1, <2>2, <3>1 DEF AudioIsOfLegs, Holds, Finishes
  <2>4. AudioKeptOnce'
    <3>1. /\ \A x \in Calls : recording[x] # c
          /\ \A o \in ops : Holds(o) => o.audio # c
      BY <1>3, <2>2
    <3> QED
      BY <1>1, <2>1, <3>1 DEF TapeInv, AudioKeptOnce, Holds, Finishes
  <2>5. TapeIsComing'
    <3>1. SUFFICES ASSUME NEW x \in taped', x \notin spoilt', recording[x] # x
          PROVE  /\ session[x] # "ended"
                 /\ \/ capture' = x /\ \A q \in ops : Finishes(q) => q.call # x
                    \/ \E o \in ops : /\ Holds(o) /\ o.call = x /\ o.audio = x
                                      /\ \A q \in ops : Finishes(q) /\ q.call = x => q = o
      BY <1>1, <1>2 DEF TapeIsComing, Holds, Finishes
    <3>2. CASE x = c
      BY <2>1, <3>1, <3>2
    <3>3. CASE x # c
      <4>1. x \in taped /\ x \notin spoilt /\ capture # x
        BY <1>3, <1>6, <2>1, <3>1, <3>3, SoftphoneAssumption
      <4> QED
        BY <3>1, <4>1 DEF TapeInv, TapeIsComing
    <3> QED
      BY <3>2, <3>3
  <2> QED
    BY <1>4, <2>3, <2>4, <2>5 DEF TapeInv
<1> QED
  BY <1>5, <1>6 DEF Media

LEMMA FinishParts ==
  ASSUME NEW op, NEW c
  PROVE  \E m \in Finish(op, c) :
            /\ m.op = op /\ m.call = c /\ m.audio = capture
            /\ m.at = IF capture = NoCall THEN "hang" ELSE "drain"
            /\ \A q \in Finish(op, c) : q = m \/ q.op = "segment"
<1> DEFINE m == Op(op, c, IF capture = NoCall THEN "hang" ELSE "drain", capture, "none")
           last == {Op("segment", capture, "last", capture, s) : s \in rolling}
<1>1. /\ m.op = op /\ m.call = c /\ m.audio = capture
      /\ m.at = IF capture = NoCall THEN "hang" ELSE "drain"
  BY OpFacts
<1>2. \A q \in last : q.op = "segment"
  BY OpFacts
<1>3. Finish(op, c) = {m} \cup last
  BY DEF Finish
<1> HIDE DEF m, last
<1> QED
  BY <1>1, <1>2, <1>3

\* A leg ends, and the handlers in hand are those that were under way.
InHand(hand) ==
    /\ \A q \in hand : Finishes(q) => GoesOn(q)
    /\ \A q \in hand : q.op = "dial" => q \in ops
    /\ \A p \in ops : Holds(p) => p \in hand

LEMMA LegEndsTape ==
  ASSUME SoftphoneAssumption, RefInv, TapeInv, NEW c \in Calls, Ringing(c) \/ Talking(c),
         NEW pend, NEW end, NEW hand, InHand(hand),
         LegEnds(c, pend, end, hand), spoilt' = spoilt \cup Spoiling', UNCHANGED atEnd
  PROVE  TapeInv'
<1> DEFINE rejects == {Ask("reject", x) : x \in IF end THEN {} ELSE {pend} \ {NoCall}}
<1>1. /\ leg' = [leg EXCEPT ![c] = "over"] /\ UNCHANGED <<session, recording, taped>>
      /\ ops' = hand \cup rejects
                   \cup (IF FinishesSelected(pend, end) THEN Finish("remote", selected) ELSE {})
      /\ IF FinishesSelected(pend, end) THEN capture' = NoCall ELSE UNCHANGED capture
  BY DEF LegEnds, OnEnded, OpsOnEnd, atEnd, deskVars
<1>2. \A q \in rejects : q.op = "reject"
  BY AskFacts
<1> HIDE DEF rejects
<1>3. LegsStay
  BY <1>1 DEF LegsStay, Ringing, Talking, RefInv, TypeOK
<1>4. CASE ~FinishesSelected(pend, end)
  <2>1. HandlersGoOn({}) /\ DialsGoOn
    BY <1>1, <1>2, <1>4 DEF HandlersGoOn, DialsGoOn, InHand, Finishes
  <2>2. CallsEndLast
    BY <1>1 DEF CallsEndLast
  <2> QED
    BY <1>1, <1>3, <1>4, <2>1, <2>2, TapeRests
<1>5. CASE FinishesSelected(pend, end)
  <2>1. selected \in Calls
    BY <1>5 DEF FinishesSelected, RefInv, TypeOK
  <2>2. PICK m \in Finish("remote", selected) :
           /\ m.op = "remote" /\ m.call = selected /\ m.audio = capture
           /\ m.at = IF capture = NoCall THEN "hang" ELSE "drain"
           /\ \A q \in Finish("remote", selected) : q = m \/ q.op = "segment"
    BY FinishParts
  <2>3. m \in ops' /\ Finishes(m)
    BY <1>1, <1>5, <2>2 DEF Finishes
  <2>4. HandlersGoOn({m}) /\ DialsGoOn
    BY <1>1, <1>2, <1>5, <2>2 DEF HandlersGoOn, DialsGoOn, InHand, Finishes
  <2> QED
    BY <1>1, <1>3, <1>5, <2>1, <2>2, <2>3, <2>4, TapeFinishes
<1> QED
  BY <1>4, <1>5

LEMMA TerminateTape ==
  ASSUME SoftphoneAssumption, RefInv, TapeInv, NEW pend, NEW live, NEW end,
         NEW hand, InHand(hand), Terminate(pend, live, end, hand),
         spoilt' = spoilt \cup Spoiling', UNCHANGED atEnd
  PROVE  TapeInv'
<1>1. CASE phone # NoCall
  <2>1. phone \in Calls /\ (Ringing(phone) \/ Talking(phone))
    BY <1>1 DEF RefInv, TypeOK, RefsAreRight
  <2>2. LegEnds(phone, pend, end, hand)
    BY <1>1 DEF Terminate
  <2> QED
    BY <2>1, <2>2, LegEndsTape
<1>2. CASE ops' = hand /\ UNCHANGED <<leg, capture>>
  <2>1. UNCHANGED <<session, recording, taped>>
    BY DEF atEnd, deskVars
  <2>2. HandlersGoOn({}) /\ DialsGoOn /\ LegsStay /\ CallsEndLast
    BY <1>2, <2>1 DEF HandlersGoOn, DialsGoOn, LegsStay, CallsEndLast, InHand
  <2> QED
    BY <1>2, <2>1, <2>2, TapeRests
<1> QED
  BY <1>1, <1>2 DEF Terminate

LEMMA EndsTape ==
  ASSUME SoftphoneAssumption, RefInv, TapeInv,
         \/ \E c \in Calls : RemoteEnds(c) \/ RejectClick(c)
         \/ \E o \in ops : TurnedAway(o) \/ LegDown(o)
  PROVE  TapeInv'
<1>1. spoilt' = spoilt \cup Spoiling' /\ UNCHANGED atEnd
  BY DEF RemoteEnds, RejectClick, TurnedAway, LegDown, atEnd
<1>2. ASSUME NEW c \in Calls, RemoteEnds(c)
      PROVE  TapeInv'
  <2>1. InHand(ops)
    BY DEF InHand, GoesOn
  <2> QED
    BY <1>1, <1>2, <2>1, LegEndsTape DEF RemoteEnds
<1>3. ASSUME NEW c \in Calls, RejectClick(c)
      PROVE  TapeInv'
  <2> DEFINE m == Ask("reject", c)
  <2>1. m.op = "reject"
    BY AskFacts
  <2>2. \/ Terminate(NoCall, FALSE, ending, ops \cup {m})
        \/ ops' = ops \cup {m} /\ UNCHANGED <<leg, capture>>
    BY <1>3 DEF RejectClick
  <2> HIDE DEF m
  <2>3. InHand(ops \cup {m})
    BY <2>1 DEF InHand, GoesOn, Finishes
  <2>4. CASE ops' = ops \cup {m} /\ UNCHANGED <<leg, capture>>
    <3>1. UNCHANGED <<session, recording, taped>>
      BY <1>1 DEF atEnd, deskVars
    <3>2. HandlersGoOn({}) /\ DialsGoOn /\ LegsStay /\ CallsEndLast
      BY <2>3, <2>4, <3>1 DEF HandlersGoOn, DialsGoOn, LegsStay, CallsEndLast, InHand
    <3> QED
      BY <1>1, <2>4, <3>1, <3>2, TapeRests
  <2> QED
    BY <1>1, <2>2, <2>3, <2>4, TerminateTape
<1>4. ASSUME NEW o \in ops, TurnedAway(o)
      PROVE  TapeInv'
  <2>1. InHand(Done(o))
    BY <1>4 DEF TurnedAway, IsAt, InHand, GoesOn, Done, Holds, Finishes
  <2> QED
    BY <1>1, <1>4, <2>1, TerminateTape DEF TurnedAway
<1>5. ASSUME NEW o \in ops, LegDown(o)
      PROVE  TapeInv'
  <2>1. Finishes(o) /\ o.at = "clear"
    BY <1>5 DEF LegDown, Reaches
  <2>2. InHand(Moved(o, "hang"))
    <3>1. /\ \A q \in Moved(o, "hang") :
                \/ q \in ops
                \/ q.op = o.op /\ q.call = o.call /\ q.at = "hang"
          /\ \A q \in ops : q = o \/ q \in Moved(o, "hang")
      BY MovedFacts DEF Places, RefInv, TypeOK
    <3> QED
      BY <2>1, <3>1 DEF InHand, GoesOn, Holds, Finishes
  <2>3. CASE Terminate(pending, alive, ending, Moved(o, "hang"))
    BY <1>1, <2>2, <2>3, TerminateTape
  <2>4. CASE ops' = Moved(o, "hang") /\ UNCHANGED <<leg, capture>>
    <3>1. UNCHANGED <<session, recording, taped>>
      BY <1>1 DEF atEnd, deskVars
    <3>2. HandlersGoOn({}) /\ DialsGoOn /\ LegsStay /\ CallsEndLast
      BY <2>2, <2>4, <3>1 DEF HandlersGoOn, DialsGoOn, LegsStay, CallsEndLast, InHand
    <3> QED
      BY <1>1, <2>4, <3>1, <3>2, TapeRests
  <2> QED
    BY <1>5, <2>3, <2>4 DEF LegDown
<1> QED
  BY <1>2, <1>3, <1>4, <1>5

LEMMA HangUpClickTape ==
  ASSUME SoftphoneAssumption, RefInv, TapeInv, NEW c \in Calls, HangUpClick(c)
  PROVE  TapeInv'
<1>1. spoilt' = spoilt \cup Spoiling' /\ UNCHANGED atEnd
  BY DEF HangUpClick, atEnd
<1>2. UNCHANGED <<session, recording, taped>>
  BY <1>1 DEF atEnd, deskVars
<1>3. ops' = ops \cup Finish("hangup", c) /\ capture' = NoCall
  BY DEF HangUpClick, Terminate, LegEnds, OnEnded, OpsOnEnd, FinishesSelected
<1>4. LegsStay
  <2>1. UNCHANGED leg \/ (phone # NoCall /\ leg' = [leg EXCEPT ![phone] = "over"])
    BY DEF HangUpClick, Terminate, LegEnds
  <2>2. phone # NoCall => phone \in Calls /\ leg[phone] # "none"
    BY DEF RefInv, TypeOK, RefsAreRight, Ringing, Talking
  <2> QED
    BY <2>1, <2>2 DEF LegsStay, RefInv, TypeOK
<1>5. PICK m \in Finish("hangup", c) :
         /\ m.op = "hangup" /\ m.call = c /\ m.audio = capture
         /\ m.at = IF capture = NoCall THEN "hang" ELSE "drain"
         /\ \A q \in Finish("hangup", c) : q = m \/ q.op = "segment"
  BY FinishParts
<1>6. m \in ops' /\ Finishes(m)
  BY <1>3, <1>5 DEF Finishes
<1>7. HandlersGoOn({m}) /\ DialsGoOn
  BY <1>3, <1>5 DEF HandlersGoOn, GoesOn, DialsGoOn, Finishes
<1> QED
  BY <1>1, <1>2, <1>3, <1>4, <1>5, <1>6, <1>7, TapeFinishes

\* The audio stays in the hand that has it, ...
LEMMA CaptureStopsTape ==
  ASSUME SoftphoneAssumption, RefInv, TapeInv, NEW o \in ops, CaptureStops(o)
  PROVE  TapeInv'
<1> DEFINE m == Op(o.op, o.call, "put", o.audio, o.by)
<1>1. /\ Holds(o) /\ Finishes(o) /\ o.op # "dial"
      /\ UNCHANGED <<leg, session, recording, capture, taped, spoilt>>
      /\ ops' = (ops \ {o}) \cup {m}
  BY DEF CaptureStops, Reaches, Holds, Finishes, Moved, deskVars, sipVars, tapeVars, pastVars
<1>2. m.op = o.op /\ m.call = o.call /\ m.audio = o.audio /\ m.at = "put"
  BY OpFacts
<1> HIDE DEF m
<1>3. Holds(m) /\ Finishes(m)
  BY <1>1, <1>2 DEF Holds, Finishes
<1>4. DialIsNew'
  BY <1>1, <1>2 DEF TapeInv, DialIsNew
<1>5. AudioIsOfLegs'
  BY <1>1, <1>2 DEF TapeInv, AudioIsOfLegs, Holds, Finishes
<1>6. AudioKeptOnce'
  <2>1. \A p, q \in ops' : Holds(p) /\ Holds(q) /\ p.audio = q.audio => p = q
    BY <1>1, <1>2 DEF TapeInv, AudioKeptOnce
  <2>2. \A p \in ops', c \in Calls : Holds(p) => p.audio \notin {capture, recording[c]}
    BY <1>1, <1>2 DEF TapeInv, AudioKeptOnce
  <2> QED
    BY <1>1, <2>1, <2>2 DEF TapeInv, AudioKeptOnce, Holds, Finishes
<1>7. TapeIsComing'
  <2>1. SUFFICES ASSUME NEW c \in taped \ spoilt, recording[c] # c
        PROVE  /\ session[c] # "ended"
               /\ \/ capture = c /\ \A q \in ops' : Finishes(q) => q.call # c
                  \/ \E p \in ops' : /\ Holds(p) /\ p.call = c /\ p.audio = c
                                     /\ \A q \in ops' : Finishes(q) /\ q.call = c => q = p
    BY <1>1 DEF TapeIsComing, Holds, Finishes
  <2>2. /\ session[c] # "ended"
        /\ \/ capture = c /\ \A q \in ops : Finishes(q) => q.call # c
           \/ \E p \in ops : /\ Holds(p) /\ p.call = c /\ p.audio = c
                             /\ \A q \in ops : Finishes(q) /\ q.call = c => q = p
    BY <2>1 DEF TapeInv, TapeIsComing
  <2>3. CASE capture = c /\ \A q \in ops : Finishes(q) => q.call # c
    BY <1>1, <1>2, <2>2, <2>3
  <2>4. ASSUME NEW p \in ops, Holds(p), p.call = c, p.audio = c,
               \A q \in ops : Finishes(q) /\ q.call = c => q = p
        PROVE  \E r \in ops' : /\ Holds(r) /\ r.call = c /\ r.audio = c
                               /\ \A q \in ops' : Finishes(q) /\ q.call = c => q = r
    <3>1. CASE p = o
      BY <1>1, <1>2, <1>3, <2>4, <3>1
    <3>2. CASE p # o
      BY <1>1, <1>2, <2>4, <3>2
    <3> QED
      BY <3>1, <3>2
  <2> QED
    BY <2>2, <2>3, <2>4
<1> QED
  BY <1>4, <1>5, <1>6, <1>7 DEF TapeInv

\* ... until it is stored, or spoilt.
LEMMA UploadTape ==
  ASSUME SoftphoneAssumption, RefInv, TapeInv, NEW o \in ops,
         UploadServed(o) \/ NothingToUpload(o)
  PROVE  TapeInv'
<1>1. Holds(o) /\ ops' \in {Moved(o, "clear"), Done(o)}
  BY DEF UploadServed, NothingToUpload, Reaches, Holds, Fails
<1>2. /\ \A q \in ops' : \/ q \in ops /\ q # o
                         \/ q.op = o.op /\ q.call = o.call /\ ~Holds(q)
      /\ \A q \in ops : q = o \/ q \in ops'
  BY <1>1, MovedFacts DEF Places, Holds, RefInv, TypeOK
<1>3. /\ UNCHANGED <<leg, session, capture, taped>> /\ spoilt \subseteq spoilt'
      /\ \/ UNCHANGED recording /\ o.audio \in spoilt'
         \/ /\ recording[o.call] = NoCall
            /\ recording' = [recording EXCEPT ![o.call] = o.audio]
  BY DEF UploadServed, NothingToUpload, deskVars, sipVars, tapeVars
<1> QED
  BY <1>1, <1>2, <1>3, TapeGoes


-----------------------------------------------------------------------------
(* The theorems. *)

LEMMA Parts == IInv <=> RefInv /\ TapeInv
BY DEF IInv, RefInv, TapeInv

LEMMA InitIInv ==
  ASSUME SoftphoneAssumption, Init
  PROVE  IInv
<1>1. Desk!TypeOK /\ Desk!SessionIsVoice /\ Desk!AssignedIffWorked
  BY SoftphoneAssumption DEF Init, Desk!Init, Desk!TypeOK, Desk!AgentStatus,
     Desk!SessionIsVoice, Desk!AssignedIffWorked
<1>2. TypeOK
  BY <1>1 DEF Init, TypeOK
<1>3. RefsAreRight /\ GrantsStand
  BY DEF Init, RefsAreRight, GrantsStand
<1>4. LineIsSole /\ TakenInTurn /\ LegIsKnown /\ TalkingCallIsLive
  BY DEF Init, LineIsSole, TakenInTurn, LegIsKnown, TalkingCallIsLive, Ringing, Talking
<1>5. TapeInv
  BY SoftphoneAssumption DEF Init, TapeInv, DialIsNew, AudioIsOfLegs, AudioKeptOnce, TapeIsComing
<1> QED
  BY <1>1, <1>2, <1>3, <1>4, <1>5, Parts DEF RefInv

LEMMA StutterKeeps ==
  ASSUME SoftphoneAssumption, IInv, UNCHANGED vars
  PROVE  IInv'
<1>1. RefInv /\ TapeInv
  BY Parts
<1>2. UNCHANGED <<deskVars, sipVars, pending, alive, selected>> /\ ops' = ops
  BY DEF vars, refVars
<1>3. DeskIsRight' /\ DeskKeeps /\ LinesStayUp
  BY <1>1, <1>2, Rests
<1>4. TypeOK'
  BY <1>1 DEF vars, RefInv, TypeOK, Desk!TypeOK, deskVars, sipVars, refVars, tapeVars, pastVars
<1>5. RefInv'
  BY <1>1, <1>2, <1>3, <1>4, CalmKeeps
<1>6. TapeInv'
  BY <1>1, <1>2, <1>3, QuietTape DEF vars, sipVars, tapeVars, pastVars
<1> QED
  BY <1>5, <1>6 DEF IInv, RefInv, TapeInv

LEMMA HandlersKeep ==
  ASSUME SoftphoneAssumption, RefInv, TapeInv, NEW o \in ops, Continue(o)
  PROVE  RefInv' /\ TapeInv'
<1>1. CASE RegisterServed(o) \/ RejectServed(o) \/ ClaimServed(o) \/ WrapUpServed(o)
  BY <1>1, RegisterServedKeeps, RejectServedKeeps, ClaimServedKeeps, WrapUpServedKeeps, ServedTape
<1>2. CASE Offered(o)
  BY <1>2, OfferedKeeps, OfferedTape
<1>3. CASE TurnedAway(o) \/ LegDown(o)
  BY <1>3, TurnedAwayKeeps, LegDownKeeps, EndsTape
<1>4. CASE ClaimReturns(o) \/ Answered(o)
  BY <1>4, ClaimReturnsKeeps, AnsweredKeeps, ClaimReturnsTape, AnsweredTape
<1>5. CASE FetchFails(o) \/ Loaded(o) \/ WrapUpReturns(o)
  BY <1>5, FetchFailsKeeps, LoadedKeeps, WrapUpReturnsKeeps, OverTape
<1>6. CASE DialServed(o) \/ DialReturns(o)
  BY <1>6, DialServedKeeps, DialReturnsKeeps, DialServedTape, DialReturnsTape
<1>7. CASE SegmentStops(o) \/ ChunkServed(o)
  BY <1>7, SegmentStopsKeeps, ChunkServedKeeps, SelectedTape
<1>8. CASE CaptureStops(o) \/ UploadServed(o) \/ NothingToUpload(o)
  BY <1>8, CaptureStopsKeeps, UploadServedKeeps, NothingToUploadKeeps, CaptureStopsTape, UploadTape
<1>9. CASE HangUpServed(o) \/ HangUpReturns(o)
  BY <1>9, HangUpServedKeeps, HangUpReturnsKeeps, HangUpServedTape, HangUpReturnsTape
<1> QED
  BY <1>1, <1>2, <1>3, <1>4, <1>5, <1>6, <1>7, <1>8, <1>9 DEF Continue

LEMMA NextIInv ==
  ASSUME SoftphoneAssumption, IInv, [Next]_vars
  PROVE  IInv'
<1>1. RefInv /\ TapeInv
  BY Parts
<1>2. ASSUME NEW o \in ops, Continue(o)
      PROVE  RefInv' /\ TapeInv'
  BY <1>1, <1>2, HandlersKeep
<1>3. ASSUME Refresh
      PROVE  RefInv' /\ TapeInv'
  BY <1>1, <1>3, RefreshKeeps, StartedTape
<1>4. ASSUME NEW s \in Speakers, SegmentEnds(s)
      PROVE  RefInv' /\ TapeInv'
  BY <1>1, <1>4, SegmentEndsKeeps, StartedTape
<1>5. ASSUME NEW c \in Calls,
             \/ Rings(c) \/ FarEndAnswers(c) \/ Media(c) \/ RemoteEnds(c) \/ Queued(c)
             \/ ClaimClick(c) \/ RejectClick(c) \/ DialClick(c) \/ Select(c)
             \/ HangUpClick(c) \/ WrapUpClick(c)
      PROVE  RefInv' /\ TapeInv'
  <2>1. CASE Rings(c) \/ FarEndAnswers(c) \/ Media(c)
    BY <1>1, <2>1, RingsKeeps, FarEndAnswersKeeps, MediaKeeps, RingsTape, AnsweredTape, MediaTape
  <2>2. CASE RemoteEnds(c) \/ RejectClick(c)
    BY <1>1, <2>2, RemoteEndsKeeps, RejectClickKeeps, EndsTape
  <2>3. CASE ClaimClick(c) \/ Select(c) \/ WrapUpClick(c)
    BY <1>1, <2>3, ClaimClickKeeps, SelectKeeps, WrapUpClickKeeps, StartedTape
  <2>4. CASE Queued(c) \/ DialClick(c) \/ HangUpClick(c)
    BY <1>1, <2>4, QueuedKeeps, DialClickKeeps, HangUpClickKeeps, QueuedTape, DialClickTape,
       HangUpClickTape
  <2> QED
    BY <1>5, <2>1, <2>2, <2>3, <2>4
<1>6. CASE UNCHANGED vars
  BY <1>6, StutterKeeps
<1>7. CASE Next
  <2>1. RefInv' /\ TapeInv'
    BY <1>2, <1>3, <1>4, <1>5, <1>7 DEF Next
  <2> QED
    BY <2>1 DEF IInv, RefInv, TapeInv
<1> QED
  BY <1>6, <1>7

\* What the console remembers of its calls stays right under every trial and whatever
\* requests fail: the phone's session is a leg that exists, what is offered was
\* registered, what is selected, loaded or finished is the agent's, audio is kept once;
\* and, with one line and answers awaited, whoever is on the line has a call that is up.
THEOREM IInvHolds == Spec => []IInv
  BY SoftphoneAssumption, InitIInv, NextIInv, PTL DEF Spec

\* Whichever handlers, failed requests and ends of legs overlap, the audio of a leg is
\* never with two of the recorder, a handler that is to upload it, and a call's
\* recording, nor stored with two calls.
THEOREM AudioIsKeptOnce == Spec => []AudioKeptOnce
<1>1. IInv => AudioKeptOnce
  BY DEF IInv
<1> QED
  BY <1>1, IInvHolds, PTL

\* Under every trial and whatever fails, a recorded call that has ended has its own
\* recording, save for the accidents the property names.
THEOREM TapedAreRecorded == Spec => []TapedIsRecorded
<1>1. ASSUME IInv, NEW c \in Calls, c \notin spoilt, c \in taped, session[c] = "ended"
      PROVE  recording[c] = c
  BY <1>1 DEF IInv, TapeIsComing
<1>2. IInv => TapedIsRecorded
  BY <1>1 DEF TapedIsRecorded, Recorded
<1> QED
  BY <1>2, IInvHolds, PTL

-----------------------------------------------------------------------------
(* The console works the desk of CallDesk, and no other. *)

\* Whatever the console does is a step of the desk or leaves it alone.
LEMMA StepServesDesk == TypeOK /\ [Next]_vars => [Desk!Next]_(Desk!vars)
<1> SUFFICES ASSUME TypeOK, [Next]_vars PROVE Desk!Next \/ UNCHANGED deskVars
  BY DEF deskVars, Desk!vars, Desk!conversationVars, Desk!lineVars, Desk!presenceVars
<1>1. ASSUME NEW c \in Calls, Queued(c) PROVE Desk!Next
  BY <1>1 DEF Queued, Desk!Next
<1>2. ASSUME NEW o \in ops,
             RegisterServed(o) \/ RejectServed(o) \/ ClaimServed(o) \/ DialServed(o)
                \/ HangUpServed(o) \/ WrapUpServed(o)
      PROVE  Desk!Next \/ UNCHANGED deskVars
  <2>1. o.call \in Calls
    BY DEF TypeOK, OpStep
  <2> QED
    BY <1>2, <2>1 DEF RegisterServed, RejectServed, ClaimServed, DialServed, HangUpServed,
                      WrapUpServed, Served, Desk!Next
<1>3. ASSUME NEW o \in ops,
             \/ Offered(o) \/ TurnedAway(o) \/ ClaimReturns(o) \/ Answered(o) \/ FetchFails(o)
             \/ DialReturns(o) \/ Loaded(o) \/ SegmentStops(o) \/ ChunkServed(o)
             \/ CaptureStops(o) \/ UploadServed(o) \/ NothingToUpload(o) \/ LegDown(o)
             \/ HangUpReturns(o) \/ WrapUpReturns(o)
      PROVE  UNCHANGED deskVars
  BY <1>3 DEF Offered, TurnedAway, ClaimReturns, Answered, FetchFails, DialReturns, Loaded,
              SegmentStops, ChunkServed, CaptureStops, UploadServed, NothingToUpload, LegDown,
              HangUpReturns, WrapUpReturns
<1>4. ASSUME Refresh \/ \E s \in Speakers : SegmentEnds(s) PROVE UNCHANGED deskVars
  BY <1>4 DEF Refresh, Start, SegmentEnds
<1>5. ASSUME NEW c \in Calls,
             \/ Rings(c) \/ FarEndAnswers(c) \/ Media(c) \/ RemoteEnds(c) \/ ClaimClick(c)
             \/ RejectClick(c) \/ DialClick(c) \/ Select(c) \/ HangUpClick(c) \/ WrapUpClick(c)
      PROVE  UNCHANGED deskVars
  BY <1>5 DEF Rings, FarEndAnswers, Media, RemoteEnds, ClaimClick, RejectClick, DialClick,
              Select, HangUpClick, WrapUpClick, Start
<1>6. CASE UNCHANGED vars
  BY <1>6 DEF vars
<1> QED
  BY <1>1, <1>2, <1>3, <1>4, <1>5, <1>6 DEF Next, Continue

\* The console is one of the desk's clients: to the desk, everything the page, the phone
\* and the recorder do under any trial is a series of its own handlers.
THEOREM ConsoleUsesDesk == Spec => Desk!Spec
<1>1. Init => Desk!Init
  BY DEF Init
<1>2. IInv => TypeOK
  BY DEF IInv
<1> QED
  BY <1>1, <1>2, IInvHolds, StepServesDesk, PTL DEF Spec, Desk!Spec

\* So what is proved of the desk holds of it here.
Proved == INSTANCE CallDeskProofs WITH Agents <- {Me}, Members <- {Me}

LEMMA SameDesk ==
  /\ Desk!Init <=> Proved!Init
  /\ [Desk!Next]_(Desk!vars) <=> [Proved!Next]_(Proved!vars)
BY DEF Desk!Init, Proved!Init, Desk!Next, Proved!Next, Desk!vars, Proved!vars,
       Desk!conversationVars, Proved!conversationVars, Desk!lineVars, Proved!lineVars,
       Desk!presenceVars, Proved!presenceVars, Desk!CreateConversation,
       Proved!CreateConversation, Desk!Enqueue, Proved!Enqueue, Desk!RingInbound,
       Proved!RingInbound, Desk!WrapUp, Proved!WrapUp, Desk!WriteSummary,
       Proved!WriteSummary, Desk!RegisterLiveInbound, Proved!RegisterLiveInbound,
       Desk!HasActive, Proved!HasActive, Desk!Dial, Proved!Dial, Desk!Occupy, Proved!Occupy,
       Desk!Assign, Proved!Assign, Desk!Claim, Proved!Claim, Desk!MayTake, Proved!MayTake,
       Desk!Reject, Proved!Reject, Desk!SetHeld, Proved!SetHeld, Desk!MayControl,
       Proved!MayControl, Desk!HangUp, Proved!HangUp, Desk!UpdatePresence,
       Proved!UpdatePresence, Desk!Live, Proved!Live, Desk!AgentStatus, Proved!AgentStatus

LEMMA SameLine ==
  /\ Desk!OneLine!Init <=> Proved!OneLine!Init
  /\ [Desk!OneLine!Next]_(Desk!OneLine!vars) <=> [Proved!OneLine!Next]_(Proved!OneLine!vars)
  /\ Desk!OneJobPerCall <=> Proved!OneJobPerCall
BY DEF Desk!OneLine!Init, Proved!OneLine!Init, Desk!OneLine!Next, Proved!OneLine!Next,
       Desk!OneLine!vars, Proved!OneLine!vars, Desk!OneLine!Begin, Proved!OneLine!Begin,
       Desk!OneLine!Answer, Proved!OneLine!Answer, Desk!OneLine!HangUp,
       Proved!OneLine!HangUp, Desk!Line, Proved!Line, Desk!Live, Proved!Live,
       Desk!OneJobPerCall, Proved!OneJobPerCall

\* However often Hang up is pressed, whoever ends the leg, and whatever the agent turns
\* to meanwhile: a call's line stops once and for ever, and is finalized once.
THEOREM ConsoleKeepsLines == Spec => []Desk!OneJobPerCall /\ Desk!CallLineSpec
<1>1. Proved!DeskAssumption
  BY SoftphoneAssumption DEF Proved!DeskAssumption
<1>2. Proved!Spec => []Proved!OneJobPerCall
  BY <1>1, Proved!HungUpHasOneJob
<1>3. Proved!Spec => Proved!CallLineSpec
  BY <1>1, Proved!DeskImplementsCallLine
<1> QED
  BY <1>2, <1>3, ConsoleUsesDesk, SameDesk, SameLine, PTL
     DEF Desk!Spec, Proved!Spec, Desk!CallLineSpec, Proved!CallLineSpec, Desk!OneLine!Spec,
         Proved!OneLine!Spec
=============================================================================
