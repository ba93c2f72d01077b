------------------------- MODULE AssistListenerProofs -------------------------
(***************************************************************************)
(* The port pool of AssistListener, for any number of channels and ports   *)
(* and every fault, and the way back to the dialplan of every caller whose *)
(* own handler does not break off.                                         *)
(***************************************************************************)
EXTENDS AssistListener, SequenceTheorems, TLAPS

\* The head of a queue of events is one, and the rest is a queue of events.
LEMMA QueueHead ==
  ASSUME NEW q \in Seq(Events), q # <<>>
  PROVE  /\ Head(q) \in Events /\ Head(q) = q[1] /\ 1 \in DOMAIN q
         /\ Tail(q) \in Seq(Events)
         /\ \A i \in DOMAIN Tail(q) : i + 1 \in DOMAIN q /\ Tail(q)[i] = q[i + 1]
         /\ \A i \in DOMAIN q : i # 1 => i - 1 \in DOMAIN Tail(q) /\ Tail(q)[i - 1] = q[i]
<1>1. Head(q) \in Events /\ Tail(q) \in Seq(Events) /\ Len(Tail(q)) = Len(q) - 1
  BY HeadTailProperties
<1>2. Head(q) = q[1] /\ \A i \in 1..Len(Tail(q)) : Tail(q)[i] = q[i + 1]
  BY HeadTailProperties
<1>3. Len(q) \in Nat \ {0}
  BY EmptySeq, LenProperties
<1>4. DOMAIN q = 1..Len(q) /\ DOMAIN Tail(q) = 1..Len(Tail(q))
  BY <1>1, LenProperties
<1> QED
  BY <1>1, <1>2, <1>3, <1>4, SMT

\* One more event at the end of the queue.
LEMMA QueueAppend ==
  ASSUME NEW q \in Seq(Events), NEW e \in Events, NEW r, r = q \o <<e>>
  PROVE  /\ r \in Seq(Events)
         /\ \A i \in DOMAIN q : i \in DOMAIN r /\ r[i] = q[i]
         /\ \A i \in DOMAIN r :
               (i \in DOMAIN q /\ r[i] = q[i]) \/ (i = Len(q) + 1 /\ r[i] = e)
         /\ \E i \in DOMAIN r : r[i] = e
<1>1. <<e>> \in Seq(Events) /\ Len(<<e>>) = 1 /\ <<e>>[1] = e
  OBVIOUS
<1>2. /\ r \in Seq(Events) /\ Len(r) = Len(q) + 1
      /\ \A i \in 1..(Len(q) + 1) : r[i] = IF i <= Len(q) THEN q[i] ELSE <<e>>[i - Len(q)]
  BY <1>1, ConcatProperties
<1>3. Len(q) \in Nat /\ DOMAIN q = 1..Len(q) /\ DOMAIN r = 1..(Len(q) + 1)
  BY <1>2, LenProperties
<1>4. r[Len(q) + 1] = e
  BY <1>1, <1>2, <1>3, SMT
<1>5. \A i \in 1..Len(q) : r[i] = q[i]
  BY <1>2, <1>3, SMT
<1>6. \A i \in 1..(Len(q) + 1) : i \in 1..Len(q) \/ i = Len(q) + 1
  BY <1>3, SMT
<1>7. Len(q) + 1 \in 1..(Len(q) + 1) /\ \A i \in 1..Len(q) : i \in 1..(Len(q) + 1)
  BY <1>3, SMT
<1> QED
  BY <1>2, <1>3, <1>4, <1>5, <1>6, <1>7, Zenon

\* Emitting one event leaves a queue of events that keeps all that were in it.
LEMMA EmitOne ==
  ASSUME TypeOK, NEW e \in Events, Emit(<<e>>)
  PROVE  /\ events' \in Seq(Events)
         /\ \A i \in DOMAIN events : i \in DOMAIN events' /\ events'[i] = events[i]
         /\ \A i \in DOMAIN events' :
               \/ i \in DOMAIN events /\ events'[i] = events[i]
               \/ i = Len(events) + 1 /\ events'[i] = e
         /\ connected => \E i \in DOMAIN events' : events'[i] = e
<1>1. events \in Seq(Events)
  BY DEF TypeOK
<1>2. CASE connected
  <2>1. events' = events \o <<e>>
    BY <1>2 DEF Emit
  <2> DEFINE r == events \o <<e>>
  <2>2. /\ r \in Seq(Events)
        /\ \A i \in DOMAIN events : i \in DOMAIN r /\ r[i] = events[i]
        /\ \A i \in DOMAIN r :
              (i \in DOMAIN events /\ r[i] = events[i]) \/ (i = Len(events) + 1 /\ r[i] = e)
        /\ \E i \in DOMAIN r : r[i] = e
    BY <1>1, QueueAppend
  <2>3. events' = r
    BY <2>1
  <2> HIDE DEF r
  <2> QED
    BY <2>2, <2>3, Zenon
<1>3. CASE ~connected
  <2>1. events' = events
    BY <1>3 DEF Emit
  <2> QED
    BY <1>1, <1>3, <2>1
<1> QED
  BY <1>2, <1>3

\* A port goes back to the pool.
LEMMA PoolAppend ==
  ASSUME NEW s \in Seq(Ports), NEW p \in Ports, \A i \in DOMAIN s : s[i] # p,
         \A i, j \in DOMAIN s : s[i] = s[j] => i = j,
         NEW t, t = Append(s, p)
  PROVE  /\ t \in Seq(Ports)
         /\ \A i, j \in DOMAIN t : t[i] = t[j] => i = j
         /\ \A q : (\E i \in DOMAIN t : t[i] = q) <=> q = p \/ \E i \in DOMAIN s : s[i] = q
<1>1. t \in Seq(Ports) /\ Len(t) = Len(s) + 1 /\ t[Len(s) + 1] = p
      /\ \A i \in 1..Len(s) : t[i] = s[i]
  BY AppendProperties
<1>2. Len(s) \in Nat /\ DOMAIN s = 1..Len(s) /\ DOMAIN t = 1..(Len(s) + 1)
  BY <1>1, LenProperties
<1> QED
  BY <1>1, <1>2, SMT

\* The last index of a sequence and the ones before it.
LEMMA LastIndex ==
  ASSUME NEW n \in Nat \ {0}
  PROVE  /\ \A i \in 1..(n - 1) : i \in 1..n /\ i # n
         /\ n \in 1..n /\ \A i \in 1..n : i = n \/ i \in 1..(n - 1)
  BY SMT

\* A port is popped from the pool.
LEMMA PoolPop ==
  ASSUME NEW s \in Seq(Ports), s # <<>>, \A i, j \in DOMAIN s : s[i] = s[j] => i = j,
         NEW t, t = SubSeq(s, 1, Len(s) - 1)
  PROVE  /\ t \in Seq(Ports) /\ s[Len(s)] \in Ports
         /\ \A i, j \in DOMAIN t : t[i] = t[j] => i = j
         /\ \A q : (\E i \in DOMAIN s : s[i] = q)
                     <=> q = s[Len(s)] \/ \E i \in DOMAIN t : t[i] = q
         /\ \A i \in DOMAIN t : t[i] # s[Len(s)]
<1>1. Len(s) \in Nat \ {0} /\ DOMAIN s = 1..Len(s) /\ \A i \in 1..Len(s) : s[i] \in Ports
  BY EmptySeq, LenProperties
<1>2. 1 \in Int /\ Len(s) - 1 \in Int /\ \A i \in 1..(Len(s) - 1) : s[i] \in Ports
  BY <1>1, SMT
<1>3. /\ t \in Seq(Ports)
      /\ Len(t) = IF 1 <= Len(s) - 1 THEN (Len(s) - 1) - 1 + 1 ELSE 0
      /\ \A i \in 1..((Len(s) - 1) - 1 + 1) : t[i] = s[1 + i - 1]
  BY <1>2, SubSeqProperties
<1>4. Len(t) = Len(s) - 1 /\ \A i \in 1..(Len(s) - 1) : t[i] = s[i]
  BY <1>1, <1>3, SMT
<1>5. DOMAIN t = 1..(Len(s) - 1)
  BY <1>3, <1>4, LenProperties
<1>6. s[Len(s)] \in Ports
  BY <1>1, LastIndex
<1>7. \A i \in 1..(Len(s) - 1) : i \in 1..Len(s) /\ i # Len(s)
  BY <1>1, LastIndex
<1>8. Len(s) \in 1..Len(s) /\ \A i \in 1..Len(s) : i = Len(s) \/ i \in 1..(Len(s) - 1)
  BY <1>1, LastIndex
<1>9. \A i, j \in DOMAIN t : t[i] = t[j] => i = j
  BY <1>1, <1>4, <1>5, <1>7, Zenon
<1>10. \A i \in DOMAIN t : t[i] # s[Len(s)]
  BY <1>1, <1>4, <1>5, <1>7, <1>8, Zenon
<1>11. \A q : (\E i \in DOMAIN s : s[i] = q) <=> q = s[Len(s)] \/ \E i \in DOMAIN t : t[i] = q
  BY <1>1, <1>4, <1>5, <1>7, <1>8, Zenon
<1> QED
  BY <1>3, <1>6, <1>9, <1>10, <1>11

-----------------------------------------------------------------------------
THEOREM InitIInv == Init => IInv
<1> SUFFICES ASSUME Init PROVE IInv
  OBVIOUS
<1> USE ListenerAssumption DEF Init
<1>1. connected \in BOOLEAN
  BY Zenon
<1>2. events \in Seq(Events) /\ DOMAIN events = {}
  BY EmptySeq
<1>3. TypeOK
  BY <1>1, <1>2 DEF TypeOK
<1>4. HeldWhileWorking
  BY DEF HeldWhileWorking
<1>5. PortsExclusive
  <2>1. \A i \in DOMAIN free : free[i] \in Ports
    BY DEF Ports
  <2> QED
    BY <2>1 DEF PortsExclusive
<1>6. PortsConserved
  BY DEF PortsConserved, Ports
<1>7. DestroyedIsGone /\ StartedOnce /\ EndedOnce /\ EndedCallIsOver /\ CreatedIsHelper
  BY <1>2 DEF DestroyedIsGone, StartedOnce, EndedOnce, EndedCallIsOver, CreatedIsHelper
<1> QED
  BY <1>3, <1>4, <1>5, <1>6, <1>7 DEF IInv

\* Steps that touch neither the pool, a registration nor a port in hand.
LEMMA PortsUntouched ==
  ASSUME IInv, UNCHANGED <<free, lent, held>>
  PROVE  PortsExclusive' /\ PortsConserved'
  BY DEF IInv, PortsExclusive, PortsConserved

\* A handler that ends leaves with no port in hand, if it had none.
LEMMA IdlePorts ==
  ASSUME IInv, Idle, held = NoPort, UNCHANGED <<free, lent>>
  PROVE  PortsExclusive' /\ PortsConserved' /\ HeldWhileWorking'
<1>1. UNCHANGED <<free, lent, held>>
  BY DEF Idle
<1>2. HeldWhileWorking'
  BY DEF Idle, HeldWhileWorking
<1> QED
  BY <1>1, <1>2, PortsUntouched

\* What DestroyedIsGone says of the queue, and how the queue can change.
QueueIsTrue == \A i \in DOMAIN events : Ends(events[i]) => leg[events[i].channel] = "gone"

Legs == [Channels -> {"none", "created", "stasis", "dialplan", "gone"}]

LEMMA EventChannel ==
  ASSUME NEW q \in Seq(Events), NEW i \in DOMAIN q
  PROVE  q[i] \in Events /\ q[i].channel \in Channels
<1>1. q[i] \in Events
  BY LenProperties
<1>2. \A e \in Events : e.channel \in Channels
  BY DEF Events, Start, Left, Destroyed
<1> QED
  BY <1>1, <1>2

LEMMA EmitStaysTrue ==
  ASSUME IInv, NEW e \in Events, Emit(<<e>>), leg' \in Legs,
         \A k \in Channels : leg[k] = "gone" => leg'[k] = "gone",
         Ends(e) => leg'[e.channel] = "gone"
  PROVE  events' \in Seq(Events) /\ QueueIsTrue'
<1>1. /\ events' \in Seq(Events)
      /\ \A i \in DOMAIN events' : (i \in DOMAIN events /\ events'[i] = events[i]) \/ events'[i] = e
  BY EmitOne DEF IInv
<1>2. \A i \in DOMAIN events : events[i].channel \in Channels
  BY EventChannel DEF IInv, TypeOK
<1>3. \A i \in DOMAIN events' : Ends(events'[i]) => leg'[events'[i].channel] = "gone"
  BY <1>1, <1>2 DEF IInv, DestroyedIsGone
<1> QED
  BY <1>1, <1>3 DEF QueueIsTrue, Ends

LEMMA TailStaysTrue ==
  ASSUME IInv, events # <<>>, events' = Tail(events), UNCHANGED leg
  PROVE  /\ events' \in Seq(Events) /\ QueueIsTrue'
         /\ Head(events) \in Events /\ Head(events).channel \in Channels
         /\ Ends(Head(events)) => leg[Head(events).channel] = "gone"
<1>1. events \in Seq(Events)
  BY DEF IInv, TypeOK
<1>2. /\ Head(events) \in Events /\ Head(events) = events[1] /\ 1 \in DOMAIN events
      /\ Tail(events) \in Seq(Events)
      /\ \A i \in DOMAIN Tail(events) : i + 1 \in DOMAIN events /\ Tail(events)[i] = events[i + 1]
  BY <1>1, QueueHead
<1>3. Head(events).channel \in Channels
  BY <1>1, <1>2, EventChannel
<1>4. \A i \in DOMAIN events' : Ends(events'[i]) => leg'[events'[i].channel] = "gone"
  BY <1>2 DEF IInv, DestroyedIsGone
<1>5. QueueIsTrue'
  BY <1>4 DEF QueueIsTrue, Ends
<1> QED
  BY <1>2, <1>3, <1>5 DEF IInv, DestroyedIsGone

\* The conjuncts of IInv but the last.
Pooled == TypeOK /\ HeldWhileWorking /\ PortsExclusive /\ PortsConserved /\ DestroyedIsGone

\* Asterisk's own steps.
LEMMA AsteriskStep ==
  ASSUME IInv, NEW c \in Channels, Arrive(c) \/ HelperEnters(c) \/ Hangup(c)
  PROVE  Pooled'
<1>1. UNCHANGED <<connected, free, lent, pc, cur, held, row, broken>>
  BY DEF Arrive, HelperEnters, Hangup, handlerVars
<1>2. PICK e \in Events :
         /\ Emit(<<e>>)
         /\ leg' \in Legs
         /\ \A k \in Channels : leg[k] = "gone" => leg'[k] = "gone"
         /\ Ends(e) => leg'[e.channel] = "gone"
  <2>1. Start(c) \in Events /\ ~Ends(Start(c))
    BY DEF Events, Start, Ends
  <2>2. Destroyed(c) \in Events /\ Destroyed(c).channel = c
    BY DEF Events, Destroyed
  <2>3. leg \in Legs
    BY DEF IInv, TypeOK, Legs
  <2>4. CASE Arrive(c)
    BY <2>1, <2>3, <2>4 DEF Arrive, Legs
  <2>5. CASE HelperEnters(c)
    BY <2>1, <2>3, <2>5 DEF HelperEnters, Legs
  <2>6. CASE Hangup(c)
    BY <2>2, <2>3, <2>6 DEF Hangup, Legs
  <2> QED
    BY <2>4, <2>5, <2>6
<1>3. events' \in Seq(Events) /\ QueueIsTrue'
  BY <1>2, EmitStaysTrue
<1>4. TypeOK'
  BY <1>1, <1>2, <1>3 DEF IInv, TypeOK, Legs
<1>5. HeldWhileWorking'
  BY <1>1 DEF IInv, HeldWhileWorking
<1>6. DestroyedIsGone'
  <2>1. pc \in {"stopping", "unsnooping", "unstreaming", "marking"} => leg[cur] = "gone" /\ cur \in Channels
    BY DEF IInv, DestroyedIsGone, HeldWhileWorking, TypeOK
  <2> QED
    BY <1>1, <1>2, <1>3, <2>1 DEF DestroyedIsGone, QueueIsTrue
<1> QED
  BY <1>1, <1>4, <1>5, <1>6, PortsUntouched DEF Pooled

\* The steps of the event loop that leave the pool and the port in hand alone.
LEMMA QuietStep ==
  ASSUME IInv, Connect \/ Disconnect \/ Ignore \/ TakeStart \/ CreateHelper \/ DeleteHelpers
  PROVE  Pooled'
<1>1. UNCHANGED <<free, lent, held, row, broken>> /\ connected' \in BOOLEAN
  BY DEF Connect, Disconnect, Ignore, TakeStart, CreateHelper, DeleteHelpers, handlerVars,
         IInv, TypeOK
<1>2. TypeOK' /\ HeldWhileWorking' /\ DestroyedIsGone'
  <2> USE <1>1
  <2>1. CASE Connect \/ Disconnect
    BY <2>1 DEF Connect, Disconnect, handlerVars, IInv, TypeOK, HeldWhileWorking,
                DestroyedIsGone
  <2>2. CASE Ignore
    <3>1. events' \in Seq(Events) /\ QueueIsTrue'
      BY <2>2, TailStaysTrue DEF Ignore
    <3> QED
      BY <2>2, <3>1 DEF Ignore, handlerVars, IInv, TypeOK, HeldWhileWorking,
                        DestroyedIsGone, QueueIsTrue
  <2>3. CASE TakeStart
    <3>1. events' \in Seq(Events) /\ QueueIsTrue' /\ Head(events).channel \in Channels
      BY <2>3, TailStaysTrue DEF TakeStart
    <3> QED
      BY <2>3, <3>1, ListenerAssumption
      DEF TakeStart, IInv, TypeOK, HeldWhileWorking, DestroyedIsGone, QueueIsTrue
  <2>4. CASE CreateHelper
    <3>1. \E h \in Channels : leg[h] = "none" /\ leg' = [leg EXCEPT ![h] = "created"]
      BY <2>4 DEF CreateHelper, MaySnoop, MayStream, Fresh
    <3>2. pc \in {"snooping", "streaming"} /\ pc' \in {"streaming", "bridging"} /\ UNCHANGED <<cur, events>>
      BY <2>4 DEF CreateHelper, MaySnoop, MayStream
    <3>3. \A i \in DOMAIN events : events[i].channel \in Channels
      BY EventChannel DEF IInv, TypeOK
    <3>4. TypeOK'
      BY <3>1, <3>2 DEF IInv, TypeOK
    <3>5. HeldWhileWorking'
      BY <3>2 DEF IInv, HeldWhileWorking
    <3>6. DestroyedIsGone'
      BY <3>1, <3>2, <3>3 DEF IInv, TypeOK, DestroyedIsGone, Ends
    <3> QED
      BY <3>4, <3>5, <3>6
  <2>5. CASE DeleteHelpers
    <3>1. /\ pc \in {"unsnooping", "unstreaming"} /\ pc' \in {"unstreaming", "marking"}
          /\ UNCHANGED cur /\ \E h : Delete(h)
      BY <2>5 DEF DeleteHelpers
    <3>2. PICK h : Delete(h)
      BY <3>1
    <3>3. /\ events' \in Seq(Events) /\ QueueIsTrue' /\ leg' \in Legs
          /\ \A k \in Channels : leg[k] = "gone" => leg'[k] = "gone"
      <4>1. CASE UNCHANGED <<leg, events>>
        BY <4>1 DEF IInv, TypeOK, DestroyedIsGone, QueueIsTrue, Legs, Ends
      <4>2. CASE h \in Channels /\ leg' = [leg EXCEPT ![h] = "gone"] /\ Emit(<<Destroyed(h)>>)
        <5>1. Destroyed(h) \in Events /\ Destroyed(h).channel = h
          BY <4>2 DEF Events, Destroyed
        <5>2. leg' \in Legs /\ leg'[h] = "gone" /\ \A k \in Channels : leg[k] = "gone" => leg'[k] = "gone"
          BY <4>2 DEF IInv, TypeOK, Legs
        <5> QED
          BY <4>2, <5>1, <5>2, EmitStaysTrue
      <4> QED
        BY <3>2, <4>1, <4>2 DEF Delete
    <3>4. cur \in Channels /\ leg[cur] = "gone"
      BY <3>1 DEF IInv, TypeOK, HeldWhileWorking, DestroyedIsGone
    <3> QED
      BY <3>1, <3>3, <3>4 DEF IInv, TypeOK, HeldWhileWorking, DestroyedIsGone, QueueIsTrue, Legs
  <2> QED
    BY <2>1, <2>2, <2>3, <2>4, <2>5
<1> QED
  BY <1>1, <1>2, PortsUntouched DEF Pooled

\* The event in hand is one, and so is what the history takes up.
LEMMA BreaksOffTyped ==
  ASSUME IInv
  PROVE  /\ InHand \in SUBSET Events
         /\ \A es \in SUBSET Events : BreaksOff(es) => broken' \in SUBSET Events
<1>1. pc # "idle" => cur \in Channels
  BY DEF IInv, HeldWhileWorking, TypeOK
<1>2. InHand \in SUBSET Events
  BY <1>1 DEF InHand, Events
<1> QED
  BY <1>2 DEF BreaksOff, IInv, TypeOK

\* The steps that end a handler.
LEMMA EndingStep ==
  ASSUME IInv, DatabaseRaises \/ HandBack \/ HandBackRaises \/ MarkEnded
  PROVE  Pooled'
<1>1. /\ Idle /\ UNCHANGED <<connected, free, lent>>
      /\ pc \in {"upserting", "marking", "returning"}
  BY DEF DatabaseRaises, HandBack, HandBackRaises, MarkEnded, asteriskVars
<1>2. held = NoPort /\ cur \in Channels
  BY <1>1 DEF IInv, HeldWhileWorking, TypeOK
<1>3. PortsExclusive' /\ PortsConserved' /\ HeldWhileWorking'
  BY <1>1, <1>2, IdlePorts
<1>4. /\ events' \in Seq(Events) /\ QueueIsTrue' /\ leg' \in Legs
  <2>1. CASE UNCHANGED <<leg, events>>
    BY <2>1 DEF IInv, TypeOK, DestroyedIsGone, QueueIsTrue, Legs, Ends
  <2>2. CASE leg[cur] = "stasis" /\ leg' = [leg EXCEPT ![cur] = "dialplan"] /\ Emit(<<Left(cur)>>)
    <3>1. Left(cur) \in Events /\ ~Ends(Left(cur))
      BY <1>2 DEF Events, Left, Ends
    <3>2. leg' \in Legs /\ \A k \in Channels : leg[k] = "gone" => leg'[k] = "gone"
      BY <1>2, <2>2 DEF IInv, TypeOK, Legs
    <3> QED
      BY <2>2, <3>1, <3>2, EmitStaysTrue
  <2> QED
    BY <2>1, <2>2 DEF DatabaseRaises, HandBack, HandBackRaises, MarkEnded, asteriskVars
<1>5. row' \in [Channels -> {"none", "started", "ended"}] /\ broken' \in SUBSET Events
  BY BreaksOffTyped DEF DatabaseRaises, HandBack, HandBackRaises, MarkEnded, IInv, TypeOK
<1>6. TypeOK'
  BY <1>1, <1>4, <1>5 DEF IInv, TypeOK, Idle, Legs
<1>7. DestroyedIsGone'
  BY <1>1, <1>4 DEF DestroyedIsGone, QueueIsTrue, Idle
<1> QED
  BY <1>3, <1>6, <1>7 DEF Pooled

\* The process starts afresh with the whole pool.
LEMMA RestartStep ==
  ASSUME IInv, Restart
  PROVE  Pooled'
<1> USE ListenerAssumption
<1>1. /\ events' = <<>> /\ free' = Pool /\ held' = NoPort /\ pc' = "idle" /\ cur' = NoChannel
      /\ lent' = [c \in Channels |-> NoPort] /\ UNCHANGED <<leg, row>>
  BY DEF Restart, Idle
<1>2. connected' \in BOOLEAN /\ broken' \in SUBSET Events
  <2>1. connected' \in BOOLEAN
    BY Zenon DEF Restart
  <2> DEFINE lost == {events[i] : i \in DOMAIN events} \cup InHand
  <2>2. \A i \in DOMAIN events : events[i] \in Events
    BY EventChannel DEF IInv, TypeOK
  <2>3. lost \in SUBSET Events
    BY <2>2, BreaksOffTyped
  <2>4. BreaksOff(lost)
    BY DEF Restart
  <2> HIDE DEF lost
  <2> QED
    BY <2>1, <2>3, <2>4 DEF BreaksOff, IInv, TypeOK
<1>3. events' \in Seq(Events) /\ DOMAIN events' = {}
  BY <1>1, EmptySeq
<1>4. TypeOK'
  BY <1>1, <1>2, <1>3 DEF IInv, TypeOK
<1>5. HeldWhileWorking'
  BY <1>1 DEF HeldWhileWorking
<1>6. PortsExclusive'
  <2>1. \A i \in DOMAIN Pool : Pool[i] \in Ports
    BY DEF Ports
  <2> QED
    BY <1>1, <2>1 DEF PortsExclusive
<1>7. PortsConserved'
  BY <1>1 DEF PortsConserved, Ports
<1>8. DestroyedIsGone'
  BY <1>1, <1>3 DEF DestroyedIsGone
<1> QED
  BY <1>4, <1>5, <1>6, <1>7, <1>8 DEF Pooled

\* A handler takes a port from the pool, if there is one.
LEMMA UpsertStep ==
  ASSUME IInv, Upsert
  PROVE  Pooled'
<1>1. /\ UNCHANGED <<leg, events, connected, lent, cur, broken>> /\ pc = "upserting"
      /\ row' \in [Channels -> {"none", "started", "ended"}]
  BY DEF Upsert, asteriskVars, IInv, TypeOK
<1>2. held = NoPort /\ cur \in Channels /\ free \in Seq(Ports)
  BY <1>1 DEF IInv, HeldWhileWorking, TypeOK
<1>3. CASE free = <<>>
  <2>1. UNCHANGED <<free, held>> /\ pc' = "returning"
    BY <1>3 DEF Upsert
  <2>2. TypeOK' /\ HeldWhileWorking' /\ DestroyedIsGone'
    BY <1>1, <2>1 DEF IInv, TypeOK, HeldWhileWorking, DestroyedIsGone, Ends
  <2> QED
    BY <1>1, <2>1, <2>2, PortsUntouched DEF Pooled
<1>4. CASE free # <<>>
  <2>1. held' = free[Len(free)] /\ free' = SubSeq(free, 1, Len(free) - 1) /\ pc' = "snooping"
    BY <1>4 DEF Upsert
  <2>2. /\ free' \in Seq(Ports) /\ held' \in Ports
        /\ \A i, j \in DOMAIN free' : free'[i] = free'[j] => i = j
        /\ \A q : (\E i \in DOMAIN free : free[i] = q)
                    <=> q = held' \/ \E i \in DOMAIN free' : free'[i] = q
        /\ \A i \in DOMAIN free' : free'[i] # held'
    <3>1. \A i, j \in DOMAIN free : free[i] = free[j] => i = j
      BY DEF IInv, PortsExclusive
    <3> DEFINE t == SubSeq(free, 1, Len(free) - 1)
    <3>2. /\ t \in Seq(Ports) /\ free[Len(free)] \in Ports
          /\ \A i, j \in DOMAIN t : t[i] = t[j] => i = j
          /\ \A q : (\E i \in DOMAIN free : free[i] = q)
                      <=> q = free[Len(free)] \/ \E i \in DOMAIN t : t[i] = q
          /\ \A i \in DOMAIN t : t[i] # free[Len(free)]
      BY <1>2, <1>4, <3>1, PoolPop
    <3>3. free' = t
      BY <2>1
    <3> HIDE DEF t
    <3> QED
      BY <2>1, <3>2, <3>3, Zenon
  <2>3. TypeOK' /\ HeldWhileWorking' /\ DestroyedIsGone'
    BY <1>1, <1>2, <2>1, <2>2, ListenerAssumption
    DEF IInv, TypeOK, HeldWhileWorking, DestroyedIsGone, Ends
  <2>4. PortsExclusive'
    <3>1. \E i \in DOMAIN free : free[i] = held'
      BY <2>2
    <3>2. \A c \in Channels : lent'[c] # held'
      BY <1>1, <3>1 DEF IInv, PortsExclusive
    <3>3. ASSUME NEW i \in DOMAIN free', NEW c \in Channels
          PROVE  free'[i] # lent'[c]
      <4>1. \E j \in DOMAIN free : free[j] = free'[i]
        BY <2>2
      <4>2. \A j \in DOMAIN free : free[j] # lent[c]
        BY DEF IInv, PortsExclusive
      <4> QED
        BY <1>1, <4>1, <4>2
    <3>4. \A c, d \in Channels : lent'[c] # NoPort /\ lent'[c] = lent'[d] => c = d
      BY <1>1 DEF IInv, PortsExclusive
    <3> QED
      BY <2>2, <3>2, <3>3, <3>4 DEF PortsExclusive
  <2>5. PortsConserved'
    <3> SUFFICES ASSUME NEW p \in Ports
                 PROVE  held' = p \/ (\E i \in DOMAIN free' : free'[i] = p) \/ \E c \in Channels : lent'[c] = p
      BY DEF PortsConserved
    <3>1. p # NoPort
      BY ListenerAssumption
    <3>2. (\E i \in DOMAIN free : free[i] = p) \/ \E c \in Channels : lent[c] = p
      BY <1>2, <3>1 DEF IInv, PortsConserved
    <3>3. (\E i \in DOMAIN free : free[i] = p) => held' = p \/ \E i \in DOMAIN free' : free'[i] = p
      BY <2>2, Zenon
    <3> QED
      BY <1>1, <3>2, <3>3, Zenon
  <2> QED
    BY <2>3, <2>4, <2>5 DEF Pooled
<1> QED
  BY <1>3, <1>4

\* A handler returns its port to the pool.
LEMMA ReturnStep ==
  ASSUME IInv, SetupFails \/ StopTap
  PROVE  Pooled'
<1>1. /\ UNCHANGED <<leg, events, connected, lent, cur, row, broken>>
      /\ pc \in {"snooping", "streaming", "bridging", "stopping"}
      /\ pc' \in {"returning", "unsnooping"} /\ (pc' = "unsnooping" => pc = "stopping")
      /\ free' = Append(free, held) /\ held' = NoPort
  BY DEF SetupFails, StopTap, asteriskVars
<1>2. held \in Ports /\ free \in Seq(Ports) /\ held # NoPort
  BY <1>1 DEF IInv, HeldWhileWorking, TypeOK
<1>3. /\ free' \in Seq(Ports)
      /\ \A i, j \in DOMAIN free' : free'[i] = free'[j] => i = j
      /\ \A q : (\E i \in DOMAIN free' : free'[i] = q)
                  <=> q = held \/ \E i \in DOMAIN free : free[i] = q
  BY <1>1, <1>2, PoolAppend DEF IInv, PortsExclusive
<1>4. TypeOK' /\ HeldWhileWorking' /\ DestroyedIsGone'
  BY <1>1, <1>3 DEF IInv, TypeOK, HeldWhileWorking, DestroyedIsGone, Ends
<1>5. PortsExclusive'
  <2>1. \A i \in DOMAIN free' : free'[i] \in Ports
    BY <1>3, LenProperties
  <2>2. \A i \in DOMAIN free' : \A c \in Channels : free'[i] # lent'[c]
    BY <1>1, <1>2, <1>3 DEF IInv, PortsExclusive
  <2> QED
    BY <1>1, <1>3, <2>1, <2>2, ListenerAssumption DEF IInv, PortsExclusive
<1>6. PortsConserved'
  BY <1>1, <1>2, <1>3 DEF IInv, PortsConserved
<1> QED
  BY <1>4, <1>5, <1>6 DEF Pooled

\* A port goes from the handler to a call, or back.
LEMMA LendStep ==
  ASSUME IInv, StartTap
  PROVE  Pooled'
<1>1. /\ UNCHANGED <<leg, events, connected, free, cur, row, broken>> /\ pc = "bridging" /\ pc' = "returning"
      /\ lent' = [lent EXCEPT ![cur] = held] /\ held' = NoPort
  BY DEF StartTap, asteriskVars
<1>2. held \in Ports /\ cur \in Channels
  BY <1>1 DEF IInv, HeldWhileWorking, TypeOK
<1>3. lent[cur] = NoPort \/ lent[cur] \in Ports
  BY <1>2 DEF IInv, TypeOK
<1>4. TypeOK' /\ HeldWhileWorking' /\ DestroyedIsGone'
  BY <1>1, <1>2, ListenerAssumption
  DEF IInv, TypeOK, HeldWhileWorking, DestroyedIsGone, Ends
<1>5. PortsExclusive'
  BY <1>1, <1>2, ListenerAssumption DEF IInv, TypeOK, PortsExclusive
<1>6. PortsConserved'
  <2>1. lent[cur] = NoPort
    BY <1>1 DEF IInv, StartedOnce
  <2> QED
    BY <1>1, <1>2, <2>1, ListenerAssumption DEF IInv, TypeOK, PortsConserved
<1> QED
  BY <1>4, <1>5, <1>6 DEF Pooled

LEMMA UnlendStep ==
  ASSUME IInv, TakeDestroyed
  PROVE  Pooled'
<1>1. /\ events # <<>> /\ events' = Tail(events) /\ pc = "idle" /\ pc' = "stopping"
      /\ UNCHANGED <<leg, connected, free, row, broken>>
  BY DEF TakeDestroyed
<1>2. /\ cur' = Head(events).channel /\ Ends(Head(events)) /\ lent[cur'] # NoPort
      /\ held' = lent[cur'] /\ lent' = [lent EXCEPT ![cur'] = NoPort]
  BY DEF TakeDestroyed
<1>3. events' \in Seq(Events) /\ QueueIsTrue' /\ cur' \in Channels /\ leg[cur'] = "gone"
  BY <1>1, <1>2, TailStaysTrue
<1>4. held = NoPort /\ held' \in Ports
  BY <1>1, <1>2, <1>3 DEF IInv, HeldWhileWorking, TypeOK
<1>5. TypeOK' /\ HeldWhileWorking' /\ DestroyedIsGone'
  BY <1>1, <1>2, <1>3, <1>4, ListenerAssumption
  DEF IInv, TypeOK, HeldWhileWorking, DestroyedIsGone, QueueIsTrue
<1>6. PortsExclusive'
  BY <1>1, <1>2, <1>3, <1>4 DEF IInv, TypeOK, PortsExclusive
<1>7. PortsConserved'
  <2> SUFFICES ASSUME NEW p \in Ports
               PROVE  held' = p \/ (\E i \in DOMAIN free' : free'[i] = p) \/ \E c \in Channels : lent'[c] = p
    BY DEF PortsConserved
  <2>1. (\E i \in DOMAIN free : free[i] = p) \/ \E c \in Channels : lent[c] = p
    BY <1>4, ListenerAssumption DEF IInv, PortsConserved
  <2>2. \A c \in Channels : lent[c] = p => held' = p \/ lent'[c] = p
    BY <1>2, <1>3 DEF IInv, TypeOK
  <2> QED
    BY <1>1, <2>1, <2>2
<1> QED
  BY <1>5, <1>6, <1>7 DEF Pooled

LEMMA NextPooled ==
  ASSUME IInv, [Next]_vars
  PROVE  Pooled'
<1>1. CASE \E c \in Channels : Arrive(c) \/ HelperEnters(c) \/ Hangup(c)
  BY <1>1, AsteriskStep
<1>2. CASE Connect \/ Disconnect \/ Ignore \/ TakeStart \/ CreateHelper \/ DeleteHelpers
  BY <1>2, QuietStep
<1>3. CASE DatabaseRaises \/ HandBack \/ HandBackRaises \/ MarkEnded
  BY <1>3, EndingStep
<1>4. CASE Restart
  BY <1>4, RestartStep
<1>5. CASE Upsert
  BY <1>5, UpsertStep
<1>6. CASE SetupFails \/ StopTap
  BY <1>6, ReturnStep
<1>7. CASE StartTap
  BY <1>7, LendStep
<1>8. CASE TakeDestroyed
  BY <1>8, UnlendStep
<1>9. CASE UNCHANGED vars
  BY <1>9 DEF vars, asteriskVars, handlerVars, IInv, Pooled, TypeOK, HeldWhileWorking, PortsExclusive,
              PortsConserved, DestroyedIsGone, Ends
<1> QED
  BY <1>1, <1>2, <1>3, <1>4, <1>5, <1>6, <1>7, <1>8, <1>9 DEF Next, LoopStep

\* Two queued StasisStart events of one channel would be one event.
LEMMA EmitStartsOnce ==
  ASSUME IInv, NEW e \in Events, Emit(<<e>>), leg' \in Legs, UNCHANGED lent,
         cur' \in {cur, NoChannel},
         \A k \in Channels : Entered(k) => leg'[k] \notin {"none", "created"},
         e.type = "StasisStart" => ~Entered(e.channel) /\ leg'[e.channel] \notin {"none", "created"}
  PROVE  /\ \A i, j \in DOMAIN events' :
               events'[i].type = "StasisStart" /\ events'[i] = events'[j] => i = j
         /\ \A i \in DOMAIN events' : events'[i].type = "StasisStart" =>
               /\ leg'[events'[i].channel] \notin {"none", "created"}
               /\ lent'[events'[i].channel] = NoPort
               /\ events'[i].channel # cur'
<1>1. \A i \in DOMAIN events' :
         \/ i \in DOMAIN events /\ events'[i] = events[i]
         \/ i = Len(events) + 1 /\ events'[i] = e
  BY EmitOne DEF IInv
<1>2. /\ \A i \in DOMAIN events : events[i].channel \in Channels
      /\ e.channel \in Channels
  <2>1. \A f \in Events : f.channel \in Channels
    BY DEF Events, Start, Left, Destroyed
  <2> QED
    BY <2>1, EventChannel DEF IInv, TypeOK
<1>3. \A i \in DOMAIN events : events[i].type = "StasisStart" /\ events[i] = e => FALSE
  BY DEF IInv, StartedOnce
<1>4. e.type = "StasisStart" => lent[e.channel] = NoPort /\ e.channel # cur
  BY <1>2 DEF IInv, StartedOnce
<1>5. NoChannel \notin Channels
  BY ListenerAssumption
<1>6. \A i, j \in DOMAIN events' :
         events'[i].type = "StasisStart" /\ events'[i] = events'[j] => i = j
  <2> SUFFICES ASSUME NEW i \in DOMAIN events', NEW j \in DOMAIN events',
                      events'[i].type = "StasisStart", events'[i] = events'[j]
               PROVE  i = j
    OBVIOUS
  <2> QED
    BY <1>1, <1>3 DEF IInv, StartedOnce
<1>7. \A i \in DOMAIN events' : events'[i].type = "StasisStart" =>
         /\ leg'[events'[i].channel] \notin {"none", "created"}
         /\ lent'[events'[i].channel] = NoPort
         /\ events'[i].channel # cur'
  <2> SUFFICES ASSUME NEW i \in DOMAIN events', events'[i].type = "StasisStart"
               PROVE  /\ leg'[events'[i].channel] \notin {"none", "created"}
                      /\ lent'[events'[i].channel] = NoPort
                      /\ events'[i].channel # cur'
    OBVIOUS
  <2>1. CASE i \in DOMAIN events /\ events'[i] = events[i]
    BY <2>1, <1>2, <1>5 DEF IInv, StartedOnce
  <2>2. CASE events'[i] = e
    BY <2>2, <1>2, <1>4, <1>5
  <2> QED
    BY <1>1, <2>1, <2>2
<1> QED
  BY <1>6, <1>7

LEMMA TailStartsOnce ==
  ASSUME IInv, events # <<>>, events' = Tail(events)
  PROVE  /\ Head(events).channel \in Channels
         /\ Head(events).type = "StasisStart" =>
               Entered(Head(events).channel) /\ lent[Head(events).channel] = NoPort
         /\ \A i, j \in DOMAIN events' :
               events'[i].type = "StasisStart" /\ events'[i] = events'[j] => i = j
         /\ \A i \in DOMAIN events' : events'[i].type = "StasisStart" =>
               /\ events'[i].channel \in Channels
               /\ Entered(events'[i].channel)
               /\ lent[events'[i].channel] = NoPort
               /\ events'[i].channel # cur
               /\ Head(events).type = "StasisStart" => events'[i].channel # Head(events).channel
<1>1. events \in Seq(Events)
  BY DEF IInv, TypeOK
<1>2. /\ Head(events) = events[1] /\ 1 \in DOMAIN events
      /\ \A i \in DOMAIN events' : i + 1 \in DOMAIN events /\ events'[i] = events[i + 1]
  BY <1>1, QueueHead
<1>3. DOMAIN events' \subseteq Nat \ {0}
  <2>1. Tail(events) \in Seq(Events)
    BY <1>1, QueueHead
  <2>2. DOMAIN events' = 1..Len(events') /\ Len(events') \in Nat
    BY <2>1, LenProperties
  <2> QED
    BY <2>2, SMT
<1>4. \A i \in DOMAIN events : events[i] \in Events /\ events[i].channel \in Channels
  BY <1>1, EventChannel
<1>5. \A e, f \in Events : e.type = f.type /\ e.channel = f.channel => e = f
  BY DEF Events, Start, Left, Destroyed
<1>6. \A i, j \in DOMAIN events' :
         events'[i].type = "StasisStart" /\ events'[i] = events'[j] => i = j
  <2> SUFFICES ASSUME NEW i \in DOMAIN events', NEW j \in DOMAIN events',
                      events'[i].type = "StasisStart", events'[i] = events'[j]
               PROVE  i = j
    OBVIOUS
  <2>1. i + 1 = j + 1
    BY <1>2 DEF IInv, StartedOnce
  <2> QED
    BY <1>3, <2>1, SMT
<1>7. \A i \in DOMAIN events' : events'[i].type = "StasisStart" =>
         /\ events'[i].channel \in Channels
         /\ Entered(events'[i].channel)
         /\ lent[events'[i].channel] = NoPort
         /\ events'[i].channel # cur
         /\ Head(events).type = "StasisStart" => events'[i].channel # Head(events).channel
  <2> SUFFICES ASSUME NEW i \in DOMAIN events', events'[i].type = "StasisStart"
               PROVE  /\ events'[i].channel \in Channels
                      /\ Entered(events'[i].channel)
                      /\ lent[events'[i].channel] = NoPort
                      /\ events'[i].channel # cur
                      /\ Head(events).type = "StasisStart"
                           => events'[i].channel # Head(events).channel
    OBVIOUS
  <2>1. i + 1 \in DOMAIN events /\ events'[i] = events[i + 1] /\ 1 # i + 1
    BY <1>2, <1>3, SMT
  <2>2. /\ events'[i].channel \in Channels
        /\ Entered(events'[i].channel)
        /\ lent[events'[i].channel] = NoPort
        /\ events'[i].channel # cur
    BY <1>4, <2>1 DEF IInv, StartedOnce
  <2>3. ASSUME events[1].type = "StasisStart", events'[i].channel = events[1].channel
        PROVE  FALSE
    <3>1. events[1] = events[i + 1]
      BY <1>2, <1>4, <1>5, <2>1, <2>3
    <3> QED
      BY <1>2, <2>1, <2>3, <3>1 DEF IInv, StartedOnce
  <2> QED
    BY <1>2, <2>2, <2>3
<1>8. /\ Head(events).channel \in Channels
      /\ Head(events).type = "StasisStart" =>
            Entered(Head(events).channel) /\ lent[Head(events).channel] = NoPort
  BY <1>2, <1>4 DEF IInv, StartedOnce
<1> QED
  BY <1>6, <1>7, <1>8

LEMMA NextStartedOnce ==
  ASSUME IInv, [Next]_vars
  PROVE  StartedOnce'
<1>1. ASSUME NEW c \in Channels, Arrive(c) \/ HelperEnters(c) \/ Hangup(c)
      PROVE  StartedOnce'
  <2>1. UNCHANGED <<lent, pc, cur>>
    BY <1>1 DEF Arrive, HelperEnters, Hangup, handlerVars
  <2>2. PICK e \in Events :
           /\ Emit(<<e>>)
           /\ leg' \in Legs
           /\ \A k \in Channels : Entered(k) => leg'[k] \notin {"none", "created"}
           /\ e.type = "StasisStart" => ~Entered(e.channel) /\ leg'[e.channel] \notin {"none", "created"}
    <3>1. Start(c) \in Events /\ Start(c).channel = c
      BY DEF Events, Start
    <3>2. Destroyed(c) \in Events /\ Destroyed(c).type # "StasisStart"
      BY DEF Events, Destroyed
    <3>3. leg \in Legs
      BY DEF IInv, TypeOK, Legs
    <3>4. CASE Arrive(c)
      BY <3>1, <3>3, <3>4 DEF Arrive, Legs, Entered
    <3>5. CASE HelperEnters(c)
      BY <3>1, <3>3, <3>5 DEF HelperEnters, Legs, Entered
    <3>6. CASE Hangup(c)
      BY <3>2, <3>3, <3>6 DEF Hangup, Legs, Entered
    <3> QED
      BY <1>1, <3>4, <3>5, <3>6
  <2>3. /\ \A i, j \in DOMAIN events' :
              events'[i].type = "StasisStart" /\ events'[i] = events'[j] => i = j
        /\ \A i \in DOMAIN events' : events'[i].type = "StasisStart" =>
              /\ leg'[events'[i].channel] \notin {"none", "created"}
              /\ lent'[events'[i].channel] = NoPort
              /\ events'[i].channel # cur'
    BY <2>1, <2>2, EmitStartsOnce
  <2> QED
    BY <2>1, <2>2, <2>3 DEF IInv, StartedOnce, Entered
<1>2. CASE Connect \/ Disconnect
  BY <1>2 DEF Connect, Disconnect, handlerVars, IInv, StartedOnce, Entered
<1>3. CASE Ignore
  <2>1. events # <<>> /\ events' = Tail(events) /\ UNCHANGED <<leg, lent, pc, cur>>
    BY <1>3 DEF Ignore, handlerVars
  <2> QED
    BY <2>1, TailStartsOnce DEF IInv, StartedOnce, Entered
<1>4. CASE TakeStart
  <2>1. /\ events # <<>> /\ events' = Tail(events) /\ Head(events).type = "StasisStart"
        /\ pc = "idle" /\ cur' = Head(events).channel /\ UNCHANGED <<leg, lent>>
    BY <1>4 DEF TakeStart
  <2> QED
    BY <2>1, TailStartsOnce DEF IInv, StartedOnce, Entered
<1>5. CASE CreateHelper
  <2>1. \E h \in Channels : leg[h] = "none" /\ leg' = [leg EXCEPT ![h] = "created"]
    BY <1>5 DEF CreateHelper, MaySnoop, MayStream, Fresh
  <2>2. /\ pc \in {"snooping", "streaming"} /\ pc' \in {"streaming", "bridging"}
        /\ UNCHANGED <<cur, events, lent>>
    BY <1>5 DEF CreateHelper, MaySnoop, MayStream
  <2>3. \A i \in DOMAIN events : events[i].channel \in Channels
    BY EventChannel DEF IInv, TypeOK
  <2> QED
    BY <2>1, <2>2, <2>3 DEF IInv, TypeOK, StartedOnce, Entered
<1>6. CASE DeleteHelpers
  <2>1. /\ pc' \in {"unstreaming", "marking"} /\ UNCHANGED <<cur, lent>> /\ \E h : Delete(h)
    BY <1>6 DEF DeleteHelpers
  <2>2. PICK h : Delete(h)
    BY <2>1
  <2>3. CASE UNCHANGED <<leg, events>>
    BY <2>1, <2>3 DEF IInv, StartedOnce, Entered
  <2>4. CASE h \in Channels /\ leg' = [leg EXCEPT ![h] = "gone"] /\ Emit(<<Destroyed(h)>>)
    <3>1. Destroyed(h) \in Events /\ Destroyed(h).type # "StasisStart"
      BY <2>4 DEF Events, Destroyed
    <3>2. leg' \in Legs /\ \A k \in Channels : Entered(k) => leg'[k] \notin {"none", "created"}
      BY <2>4 DEF IInv, TypeOK, Legs, Entered
    <3>3. /\ \A i, j \in DOMAIN events' :
                events'[i].type = "StasisStart" /\ events'[i] = events'[j] => i = j
          /\ \A i \in DOMAIN events' : events'[i].type = "StasisStart" =>
                /\ leg'[events'[i].channel] \notin {"none", "created"}
                /\ lent'[events'[i].channel] = NoPort
                /\ events'[i].channel # cur'
      BY <2>1, <2>4, <3>1, <3>2, EmitStartsOnce
    <3> QED
      BY <2>1, <3>2, <3>3 DEF IInv, StartedOnce, Entered
  <2> QED
    BY <2>2, <2>3, <2>4 DEF Delete
<1>7. CASE DatabaseRaises \/ HandBack \/ HandBackRaises \/ MarkEnded
  <2>1. pc' = "idle" /\ cur' = NoChannel /\ UNCHANGED lent /\ NoChannel \notin Channels
    BY <1>7, ListenerAssumption DEF DatabaseRaises, HandBack, HandBackRaises, MarkEnded, asteriskVars, Idle
  <2>2. \A i \in DOMAIN events : events[i].channel \in Channels
    BY EventChannel DEF IInv, TypeOK
  <2>3. CASE UNCHANGED <<leg, events>>
    BY <2>1, <2>2, <2>3 DEF IInv, StartedOnce, Entered
  <2>4. CASE leg[cur] = "stasis" /\ leg' = [leg EXCEPT ![cur] = "dialplan"] /\ Emit(<<Left(cur)>>)
    <3>1. cur \in Channels
      BY <1>7 DEF DatabaseRaises, HandBack, HandBackRaises, MarkEnded, IInv, HeldWhileWorking, TypeOK
    <3>2. Left(cur) \in Events /\ Left(cur).type # "StasisStart"
      BY <3>1 DEF Events, Left
    <3>3. leg' \in Legs /\ \A k \in Channels : Entered(k) => leg'[k] \notin {"none", "created"}
      BY <2>4, <3>1 DEF IInv, TypeOK, Legs, Entered
    <3>4. /\ \A i, j \in DOMAIN events' :
                events'[i].type = "StasisStart" /\ events'[i] = events'[j] => i = j
          /\ \A i \in DOMAIN events' : events'[i].type = "StasisStart" =>
                /\ leg'[events'[i].channel] \notin {"none", "created"}
                /\ lent'[events'[i].channel] = NoPort
                /\ events'[i].channel # cur'
      BY <2>1, <2>4, <3>2, <3>3, EmitStartsOnce
    <3> QED
      BY <2>1, <3>3, <3>4 DEF IInv, StartedOnce, Entered
  <2> QED
    BY <1>7, <2>3, <2>4 DEF DatabaseRaises, HandBack, HandBackRaises, MarkEnded, asteriskVars
<1>8. CASE Restart
  <2>1. /\ events' = <<>> /\ pc' = "idle" /\ cur' = NoChannel /\ lent' = [c \in Channels |-> NoPort]
    BY <1>8 DEF Restart, Idle
  <2>2. DOMAIN events' = {}
    BY <2>1
  <2> QED
    BY <2>1, <2>2, ListenerAssumption DEF StartedOnce
<1>9. CASE Upsert \/ SetupFails \/ StopTap
  <2>1. /\ UNCHANGED <<leg, events, lent, cur>>
        /\ pc' \in {"snooping", "returning", "unsnooping"} /\ (pc' = "snooping" => pc = "upserting")
    BY <1>9 DEF Upsert, SetupFails, StopTap, asteriskVars
  <2> QED
    BY <2>1 DEF IInv, StartedOnce, Entered
<1>10. CASE StartTap
  <2>1. /\ UNCHANGED <<leg, events, cur>> /\ pc' = "returning" /\ lent' = [lent EXCEPT ![cur] = held]
    BY <1>10 DEF StartTap, asteriskVars
  <2>2. \A i \in DOMAIN events : events[i].channel \in Channels
    BY EventChannel DEF IInv, TypeOK
  <2> QED
    BY <2>1, <2>2 DEF IInv, TypeOK, StartedOnce, Entered
<1>11. CASE TakeDestroyed
  <2>1. /\ events # <<>> /\ events' = Tail(events) /\ pc' = "stopping" /\ UNCHANGED leg
        /\ cur' = Head(events).channel /\ lent[cur'] # NoPort
        /\ lent' = [lent EXCEPT ![cur'] = NoPort]
    BY <1>11 DEF TakeDestroyed
  <2> QED
    BY <2>1, TailStartsOnce DEF IInv, TypeOK, StartedOnce, Entered
<1>12. CASE UNCHANGED vars
  BY <1>12 DEF vars, asteriskVars, handlerVars, IInv, StartedOnce, Entered
<1> QED
  BY <1>1, <1>2, <1>3, <1>4, <1>5, <1>6, <1>7, <1>8, <1>9, <1>10, <1>11, <1>12 DEF Next, LoopStep

\* What a step may do to the channels and the queue: nobody comes back, and a
\* StasisStart that is queued was so before, or is that of a channel which enters.
LEMMA QueueSteps ==
  ASSUME IInv, [Next]_vars
  PROVE  /\ \A c \in Channels : leg[c] = "gone" => leg'[c] = "gone"
         /\ \A i \in DOMAIN events' : events'[i].type = "StasisStart" =>
               /\ events'[i].channel \in Channels
               /\ \/ \E j \in DOMAIN events : events[j] = events'[i]
                  \/ ~Entered(events'[i].channel)
<1> DEFINE Legit(e) == /\ e.channel \in Channels
                       /\ \/ \E j \in DOMAIN events : events[j] = e
                          \/ ~Entered(e.channel)
           Kept == \A c \in Channels : leg[c] = "gone" => leg'[c] = "gone"
           Queued == \A i \in DOMAIN events' : events'[i].type = "StasisStart" => Legit(events'[i])
<1>1. \A i \in DOMAIN events : events[i].channel \in Channels
  BY EventChannel DEF IInv, TypeOK
<1>2. ASSUME NEW e \in Events, Emit(<<e>>), e.type = "StasisStart" => ~Entered(e.channel)
      PROVE  Queued
  <2>1. \A i \in DOMAIN events' : (i \in DOMAIN events /\ events'[i] = events[i]) \/ events'[i] = e
    BY <1>2, EmitOne DEF IInv
  <2>2. e.channel \in Channels
    BY DEF Events, Start, Left, Destroyed
  <2> QED
    BY <1>1, <1>2, <2>1, <2>2
<1>3. ASSUME events # <<>>, events' = Tail(events)
      PROVE  Queued
  <2>1. \A i \in DOMAIN Tail(events) : i + 1 \in DOMAIN events /\ Tail(events)[i] = events[i + 1]
    BY <1>3, QueueHead DEF IInv, TypeOK
  <2> QED
    BY <1>1, <1>3, <2>1
<1>4. ASSUME UNCHANGED events
      PROVE  Queued
  BY <1>1, <1>4
<1>5. ASSUME UNCHANGED leg
      PROVE  Kept
  BY <1>5
<1>6. ASSUME NEW h \in Channels, leg' = [leg EXCEPT ![h] = "gone"], Emit(<<Destroyed(h)>>)
      PROVE  Kept /\ Queued
  <2>1. Destroyed(h) \in Events /\ Destroyed(h).type # "StasisStart"
    BY DEF Events, Destroyed
  <2>2. Kept
    BY <1>6 DEF IInv, TypeOK
  <2> QED
    BY <1>2, <1>6, <2>1, <2>2
<1>7. ASSUME NEW c \in Channels, Arrive(c) \/ HelperEnters(c)
      PROVE  Kept /\ Queued
  <2>1. Start(c) \in Events /\ Start(c).channel = c
    BY DEF Events, Start
  <2>2. Kept
    BY <1>7 DEF Arrive, HelperEnters, IInv, TypeOK
  <2>3. Emit(<<Start(c)>>) /\ ~Entered(c)
    BY <1>7 DEF Arrive, HelperEnters, Entered
  <2> QED
    BY <1>2, <2>1, <2>2, <2>3
<1>8. CASE Restart
  <2>1. DOMAIN events' = {} /\ UNCHANGED leg
    BY <1>8 DEF Restart
  <2> QED
    BY <1>5, <2>1
<1>9. CASE CreateHelper
  <2>1. UNCHANGED events /\ \E h \in Channels : leg[h] = "none" /\ leg' = [leg EXCEPT ![h] = "created"]
    BY <1>9 DEF CreateHelper, MaySnoop, MayStream, Fresh
  <2>2. Kept
    BY <2>1 DEF IInv, TypeOK
  <2> QED
    BY <1>4, <2>1, <2>2
<1>10. CASE HandBack
  <2>1. leg[cur] = "stasis" /\ leg' = [leg EXCEPT ![cur] = "dialplan"] /\ Emit(<<Left(cur)>>)
    BY <1>10 DEF HandBack
  <2>2. cur \in Channels
    BY <1>10 DEF HandBack, IInv, HeldWhileWorking, TypeOK
  <2>3. Left(cur) \in Events /\ Left(cur).type # "StasisStart"
    BY <2>2 DEF Events, Left
  <2>4. Kept
    BY <2>1, <2>2 DEF IInv, TypeOK
  <2> QED
    BY <1>2, <2>1, <2>3, <2>4
<1>11. CASE DeleteHelpers
  <2>1. PICK h : Delete(h)
    BY <1>11 DEF DeleteHelpers
  <2> QED
    BY <1>4, <1>5, <1>6, <2>1 DEF Delete
<1>12. CASE Ignore \/ TakeStart \/ TakeDestroyed
  BY <1>3, <1>5, <1>12 DEF Ignore, TakeStart, TakeDestroyed
<1>13. CASE \/ Connect \/ Disconnect \/ Upsert \/ DatabaseRaises \/ StartTap \/ SetupFails
            \/ HandBackRaises \/ StopTap \/ MarkEnded \/ UNCHANGED vars
  <2>1. UNCHANGED <<leg, events>>
    BY <1>13 DEF Connect, Disconnect, Upsert, DatabaseRaises, StartTap, SetupFails, HandBackRaises,
                 StopTap, MarkEnded, vars, asteriskVars
  <2> QED
    BY <1>4, <1>5, <2>1
<1>14. CASE \E c \in Channels : Hangup(c)
  BY <1>6, <1>14 DEF Hangup
<1> QED
  BY <1>7, <1>8, <1>9, <1>10, <1>11, <1>12, <1>13, <1>14 DEF Next, LoopStep

\* Only a call that was torn down is marked ended, and none that was is started again.
LEMMA NextEndedOnce ==
  ASSUME IInv, [Next]_vars
  PROVE  EndedOnce' /\ EndedCallIsOver'
<1> DEFINE StartsStand == \A i \in DOMAIN events' :
              events'[i].type = "StasisStart" => row'[events'[i].channel] # "ended"
<1>1. \A c \in Channels : leg[c] = "gone" => leg'[c] = "gone"
  BY QueueSteps
<1>2. \A i \in DOMAIN events' : events'[i].type = "StasisStart" =>
         /\ events'[i].channel \in Channels
         /\ row[events'[i].channel] # "ended"
         /\ events'[i].channel # cur \/ ~Entered(events'[i].channel)
  <2>1. \A c \in Channels : ~Entered(c) => row[c] # "ended"
    BY DEF IInv, EndedCallIsOver, Entered
  <2> QED
    BY <2>1, QueueSteps DEF IInv, EndedOnce, StartedOnce
<1>3. ASSUME UNCHANGED row
      PROVE  StartsStand
  BY <1>2, <1>3
<1>4. ASSUME UNCHANGED row, \A c \in Channels : lent'[c] \in {lent[c], NoPort}
      PROVE  EndedCallIsOver'
  BY <1>1, <1>4 DEF IInv, EndedCallIsOver
<1>5. CASE \/ Connect \/ Disconnect \/ Ignore
           \/ \E c \in Channels : Arrive(c) \/ HelperEnters(c) \/ Hangup(c)
  <2>1. UNCHANGED <<row, lent, pc, cur>>
    BY <1>5 DEF Connect, Disconnect, Ignore, Arrive, HelperEnters, Hangup, handlerVars
  <2> QED
    BY <1>3, <1>4, <2>1 DEF IInv, EndedOnce
<1>6. CASE TakeStart
  <2>1. /\ UNCHANGED <<row, lent>> /\ pc' = "upserting" /\ cur' = Head(events).channel
        /\ Head(events).type = "StasisStart" /\ events # <<>>
    BY <1>6 DEF TakeStart
  <2>2. row[cur'] # "ended"
    BY <2>1, QueueHead DEF IInv, TypeOK, EndedOnce
  <2> QED
    BY <1>3, <1>4, <2>1, <2>2 DEF EndedOnce
<1>7. CASE Upsert
  <2>1. /\ pc = "upserting" /\ pc' \in {"returning", "snooping"} /\ UNCHANGED <<cur, lent, events>>
        /\ row' = [row EXCEPT ![cur] = IF @ = "none" THEN "started" ELSE @]
    BY <1>7 DEF Upsert, asteriskVars
  <2>2. cur \in Channels
    BY <2>1 DEF IInv, HeldWhileWorking, TypeOK
  <2>3. \A c \in Channels : row'[c] = "ended" => row[c] = "ended"
    BY <2>1 DEF IInv, TypeOK
  <2>4. EndedOnce'
    BY <1>2, <2>1, <2>2, <2>3 DEF IInv, EndedOnce
  <2>5. EndedCallIsOver'
    BY <1>1, <2>1, <2>3 DEF IInv, EndedCallIsOver
  <2> QED
    BY <2>4, <2>5
<1>8. CASE DatabaseRaises \/ HandBack \/ HandBackRaises
  <2>1. UNCHANGED <<row, lent>> /\ pc' = "idle"
    BY <1>8 DEF DatabaseRaises, HandBack, HandBackRaises, Idle
  <2> QED
    BY <1>3, <1>4, <2>1 DEF EndedOnce
<1>9. CASE Restart
  <2>1. UNCHANGED row /\ pc' = "idle" /\ \A c \in Channels : lent'[c] = NoPort
    BY <1>9 DEF Restart, Idle
  <2> QED
    BY <1>3, <1>4, <2>1 DEF EndedOnce
<1>10. CASE CreateHelper \/ SetupFails \/ StopTap \/ DeleteHelpers
  <2>1. /\ UNCHANGED <<row, lent, cur>>
        /\ \/ pc' = "returning"
           \/ pc \in {"snooping", "streaming"} /\ pc' \in {"streaming", "bridging"}
           \/ /\ pc \in {"stopping", "unsnooping", "unstreaming"}
              /\ pc' \in {"unsnooping", "unstreaming", "marking"}
    BY <1>10 DEF CreateHelper, MaySnoop, MayStream, SetupFails, StopTap, DeleteHelpers
  <2> QED
    BY <1>3, <1>4, <2>1 DEF IInv, EndedOnce
<1>11. CASE StartTap
  <2>1. /\ pc = "bridging" /\ pc' = "returning" /\ UNCHANGED row
        /\ lent' = [lent EXCEPT ![cur] = held]
    BY <1>11 DEF StartTap
  <2>2. row[cur] # "ended"
    BY <2>1 DEF IInv, EndedOnce
  <2>3. EndedCallIsOver'
    BY <1>1, <2>1, <2>2 DEF IInv, TypeOK, EndedCallIsOver
  <2> QED
    BY <1>3, <2>1, <2>3 DEF EndedOnce
<1>12. CASE TakeDestroyed
  <2>1. /\ pc' = "stopping" /\ UNCHANGED row /\ events # <<>> /\ cur' = Head(events).channel
        /\ lent' = [lent EXCEPT ![cur'] = NoPort]
    BY <1>12 DEF TakeDestroyed
  <2>2. cur' \in Channels
    BY <2>1, QueueHead, EventChannel DEF IInv, TypeOK
  <2>3. \A c \in Channels : lent'[c] \in {lent[c], NoPort}
    BY <2>1 DEF IInv, TypeOK
  <2>4. lent'[cur'] = NoPort
    BY <2>1, <2>2 DEF IInv, TypeOK
  <2> QED
    BY <1>3, <1>4, <2>1, <2>3, <2>4 DEF EndedOnce
<1>13. CASE MarkEnded
  <2>1. /\ pc = "marking" /\ pc' = "idle" /\ UNCHANGED <<leg, events, lent>>
        /\ row' = [row EXCEPT ![cur] = IF @ = "none" THEN @ ELSE "ended"]
    BY <1>13 DEF MarkEnded, asteriskVars, Idle
  <2>2. cur \in Channels /\ leg[cur] = "gone" /\ lent[cur] = NoPort
    BY <2>1 DEF IInv, HeldWhileWorking, TypeOK, DestroyedIsGone, EndedOnce
  <2>3. \A c \in Channels : c # cur => row'[c] = row[c]
    BY <2>1 DEF IInv, TypeOK
  <2>4. EndedOnce'
    BY <1>2, <2>1, <2>2, <2>3 DEF EndedOnce, Entered
  <2>5. EndedCallIsOver'
    BY <2>1, <2>2, <2>3 DEF IInv, EndedCallIsOver
  <2> QED
    BY <2>4, <2>5
<1>14. CASE UNCHANGED vars
  BY <1>14 DEF vars, asteriskVars, handlerVars, IInv, EndedOnce, EndedCallIsOver
<1> QED
  BY <1>5, <1>6, <1>7, <1>8, <1>9, <1>10, <1>11, <1>12, <1>13, <1>14 DEF Next, LoopStep

\* Only the listener asks for channels that are not there yet.
LEMMA NextCreated ==
  ASSUME IInv, [Next]_vars
  PROVE  CreatedIsHelper'
<1>1. CASE CreateHelper
  <2>1. PICK h \in Channels : h \in {SnoopOf[cur], ExtMediaOf[cur]} /\ leg' = [leg EXCEPT ![h] = "created"]
    BY <1>1 DEF CreateHelper, MaySnoop, MayStream, Fresh
  <2>2. cur \in Channels
    BY <1>1 DEF CreateHelper, MaySnoop, MayStream, IInv, HeldWhileWorking, TypeOK
  <2>3. h \in Helpers
    BY <2>1, <2>2, ListenerAssumption DEF Helpers
  <2> QED
    BY <2>1, <2>3 DEF IInv, TypeOK, CreatedIsHelper
<1>2. CASE ~CreateHelper
  <2>1. \A c \in Channels : leg'[c] = "created" => leg[c] = "created"
    BY <1>2 DEF Next, LoopStep, Connect, Ignore, TakeStart, Upsert, StartTap, SetupFails, HandBack,
       HandBackRaises, TakeDestroyed, StopTap, DeleteHelpers, Delete, MarkEnded, DatabaseRaises, Disconnect,
       Restart, Arrive, HelperEnters, Hangup, vars, asteriskVars, IInv, TypeOK
  <2> QED
    BY <2>1 DEF IInv, CreatedIsHelper
<1> QED
  BY <1>1, <1>2

THEOREM NextIInv == IInv /\ [Next]_vars => IInv'
  BY NextPooled, NextStartedOnce, NextEndedOnce, NextCreated DEF IInv, Pooled

\* What is queued stays so until it is at the head.
LEMMA EmitKeepsQueue ==
  ASSUME IInv, NEW e \in Events, Emit(<<e>>)
  PROVE  \A i \in DOMAIN events : \E j \in DOMAIN events' : events'[j] = events[i]
  BY EmitOne DEF IInv

LEMMA TailKeepsQueue ==
  ASSUME IInv, events # <<>>, events' = Tail(events)
  PROVE  \A i \in DOMAIN events :
            events[i] = Head(events) \/ \E j \in DOMAIN events' : events'[j] = events[i]
<1>1. /\ Head(events) = events[1]
      /\ \A i \in DOMAIN events : i # 1 =>
            i - 1 \in DOMAIN Tail(events) /\ Tail(events)[i - 1] = events[i]
  BY QueueHead DEF IInv, TypeOK
<1> QED
  BY <1>1

\* A caller in Stasis leaves the queue for the handler, and the handler for the
\* dialplan or the history.
LEMMA NextHandedBack ==
  ASSUME IInv, HandedBack, [Next]_vars
  PROVE  HandedBack'
<1> DEFINE Kept == \A i \in DOMAIN events : \E j \in DOMAIN events' : events'[j] = events[i]
           Stays(c) == leg'[c] = "stasis" /\ c \notin Helpers => leg[c] = "stasis"
<1>0. broken \subseteq broken'
  BY DEF Next, LoopStep, Connect, Ignore, TakeStart, Upsert, StartTap, SetupFails, HandBack,
     HandBackRaises, CreateHelper, TakeDestroyed, StopTap, DeleteHelpers, MarkEnded, DatabaseRaises,
     Disconnect, Restart, Arrive, HelperEnters, Hangup, BreaksOff, vars
<1>1. ASSUME Kept, \A c \in Channels : Stays(c), cur' = cur
      PROVE  HandedBack'
  BY <1>0, <1>1 DEF HandedBack
<1>2. ASSUME NEW c \in Channels, Arrive(c) \/ HelperEnters(c)
      PROVE  HandedBack'
  <2>1. Start(c) \in Events
    BY DEF Events
  <2>2. Emit(<<Start(c)>>) /\ cur' = cur
    BY <1>2 DEF Arrive, HelperEnters, handlerVars
  <2>3. Kept /\ (connected => \E i \in DOMAIN events' : events'[i] = Start(c))
    BY <2>1, <2>2, EmitOne DEF IInv
  <2>4. /\ \A k \in Channels : k # c => leg'[k] = leg[k]
        /\ leg'[c] = "stasis" /\ c \notin Helpers => connected
    BY <1>2 DEF Arrive, HelperEnters, IInv, TypeOK, CreatedIsHelper
  <2> QED
    BY <1>0, <2>2, <2>3, <2>4 DEF HandedBack
<1>3. CASE \E c \in Channels : Hangup(c)
  <2>1. PICK c \in Channels : Hangup(c)
    BY <1>3
  <2>2. Destroyed(c) \in Events
    BY DEF Events
  <2>3. Kept /\ cur' = cur
    BY <2>1, <2>2, EmitKeepsQueue DEF Hangup, handlerVars
  <2>4. \A k \in Channels : Stays(k)
    BY <2>1 DEF Hangup, IInv, TypeOK
  <2> QED
    BY <1>1, <2>3, <2>4
<1>4. CASE Connect \/ Disconnect \/ Upsert \/ StartTap \/ SetupFails \/ StopTap \/ UNCHANGED vars
  <2>1. UNCHANGED <<leg, events, cur>>
    BY <1>4 DEF Connect, Disconnect, Upsert, StartTap, SetupFails, StopTap, vars, asteriskVars,
                handlerVars
  <2> QED
    BY <1>1, <2>1
<1>5. CASE CreateHelper
  <2>1. /\ UNCHANGED <<events, cur>>
        /\ \E h \in Channels : leg' = [leg EXCEPT ![h] = "created"]
    BY <1>5 DEF CreateHelper, MaySnoop, MayStream, Fresh
  <2>2. \A k \in Channels : Stays(k)
    BY <2>1 DEF IInv, TypeOK
  <2> QED
    BY <1>1, <2>1, <2>2
<1>6. CASE DeleteHelpers
  <2>1. PICK h : Delete(h)
    BY <1>6 DEF DeleteHelpers
  <2>2. cur' = cur
    BY <1>6 DEF DeleteHelpers
  <2>3. CASE UNCHANGED <<leg, events>>
    BY <1>1, <2>2, <2>3
  <2>4. CASE h \in Channels /\ leg' = [leg EXCEPT ![h] = "gone"] /\ Emit(<<Destroyed(h)>>)
    <3>1. Destroyed(h) \in Events
      BY <2>4 DEF Events
    <3>2. Kept
      BY <2>4, <3>1, EmitKeepsQueue
    <3>3. \A k \in Channels : Stays(k)
      BY <2>4 DEF IInv, TypeOK
    <3> QED
      BY <1>1, <2>2, <3>2, <3>3
  <2> QED
    BY <2>1, <2>3, <2>4 DEF Delete
<1>7. CASE HandBack
  <2>1. cur \in Channels
    BY <1>7 DEF HandBack, IInv, HeldWhileWorking, TypeOK
  <2>2. leg' = [leg EXCEPT ![cur] = "dialplan"] /\ Emit(<<Left(cur)>>)
    BY <1>7 DEF HandBack
  <2>3. Left(cur) \in Events
    BY <2>1 DEF Events
  <2>4. Kept
    BY <2>2, <2>3, EmitKeepsQueue
  <2>5. leg'[cur] # "stasis" /\ \A k \in Channels : k # cur => leg'[k] = leg[k]
    BY <2>1, <2>2 DEF IInv, TypeOK
  <2> QED
    BY <1>0, <2>4, <2>5 DEF HandedBack
<1>8. CASE MarkEnded
  <2>1. UNCHANGED <<leg, events>> /\ leg[cur] = "gone"
    BY <1>8 DEF MarkEnded, asteriskVars, IInv, DestroyedIsGone
  <2> QED
    BY <1>0, <2>1 DEF HandedBack
<1>9. CASE Ignore \/ TakeStart \/ TakeDestroyed
  <2>1. /\ events # <<>> /\ events' = Tail(events) /\ pc = "idle" /\ UNCHANGED leg
    BY <1>9 DEF Ignore, TakeStart, TakeDestroyed
  <2>2. \A i \in DOMAIN events :
           events[i] = Head(events) \/ \E j \in DOMAIN events' : events'[j] = events[i]
    BY <2>1, TailKeepsQueue
  <2>3. cur \notin Channels
    BY <2>1, ListenerAssumption DEF IInv, HeldWhileWorking
  <2>4. ASSUME NEW c \in Channels, c \notin Helpers, Head(events) = Start(c)
        PROVE  cur' = c
    <3>1. Head(events).type = "StasisStart" /\ Head(events).channel = c
      BY <2>4 DEF Start
    <3>2. ~IsHelper(c)
      BY <2>4, ListenerAssumption DEF IsHelper, Helpers
    <3> QED
      BY <1>9, <3>1, <3>2 DEF Ignore, TakeStart, TakeDestroyed, Ends
  <2> QED
    BY <1>0, <2>1, <2>2, <2>3, <2>4 DEF HandedBack
<1>10. CASE DatabaseRaises \/ HandBackRaises
  <2>1. UNCHANGED <<leg, events>> /\ BreaksOff(InHand) /\ pc \in {"upserting", "marking", "returning"}
    BY <1>10 DEF DatabaseRaises, HandBackRaises, asteriskVars
  <2>2. pc = "marking" => leg[cur] = "gone"
    BY DEF IInv, DestroyedIsGone
  <2>3. ASSUME NEW c \in Channels, c \notin Helpers, leg[c] = "stasis", cur = c
        PROVE  Start(c) \in broken'
    <3>1. InHand = {Start(c)} /\ Start(c).channel = c
      BY <2>1, <2>2, <2>3 DEF InHand, Start
    <3> QED
      BY <2>1, <2>3, <3>1 DEF BreaksOff
  <2> SUFFICES ASSUME NEW c \in Channels, leg[c] = "stasis", c \notin Helpers
               PROVE  (\E i \in DOMAIN events : events[i] = Start(c)) \/ Start(c) \in broken'
    BY <2>1 DEF HandedBack
  <2> QED
    BY <1>0, <2>3 DEF HandedBack
<1>11. CASE Restart
  <2>1. UNCHANGED leg /\ BreaksOff({events[i] : i \in DOMAIN events} \cup InHand)
    BY <1>11 DEF Restart
  <2>2. ASSUME NEW c \in Channels, c \notin Helpers, leg[c] = "stasis", cur = c
        PROVE  Start(c) \in broken'
    <3>1. pc # "idle" /\ pc \notin {"stopping", "unsnooping", "unstreaming", "marking"}
      BY <2>2, ListenerAssumption DEF IInv, HeldWhileWorking, DestroyedIsGone
    <3>2. Start(c) \in InHand /\ Start(c).channel = c
      BY <2>2, <3>1 DEF InHand, Start
    <3> QED
      BY <2>1, <2>2, <3>2 DEF BreaksOff
  <2>3. ASSUME NEW c \in Channels, c \notin Helpers, NEW i \in DOMAIN events, events[i] = Start(c)
        PROVE  Start(c) \in broken'
    <3>1. Start(c).channel = c
      BY DEF Start
    <3> QED
      BY <2>1, <2>3, <3>1 DEF BreaksOff
  <2> QED
    BY <1>0, <2>1, <2>2, <2>3 DEF HandedBack
<1> QED
  BY <1>2, <1>3, <1>4, <1>5, <1>6, <1>7, <1>8, <1>9, <1>10, <1>11
  DEF Next, LoopStep

\* The inductive invariant of the listener, type correctness included.
THEOREM IInvHolds == Spec => []IInv
  BY InitIInv, NextIInv, PTL DEF Spec

\* No port of ari_listener.py's pool is lent twice.
THEOREM NoPortLentTwice == Spec => []PortsExclusive
  BY IInvHolds, PTL DEF IInv

\* No port of the pool is lost, under every fault.
THEOREM NoPortLost == Spec => []PortsConserved
  BY IInvHolds, PTL DEF IInv

\* Together: at every moment each port of the pool is in exactly one place.
THEOREM PortsInOnePlace == Spec => []EachPortInOnePlace
  BY IInvHolds, PTL DEF IInv, EachPortInOnePlace

\* A call is marked ended only once its channel is gone and its tap closed: the tap
\* hears the whole conversation, under every fault.
THEOREM EndedCallsAreOver == Spec => []EndedCallIsOver
  BY IInvHolds, PTL DEF IInv

\* A caller waits in Stasis only while the StasisStart is queued or handled, or if
\* that handler broke off: under every fault, no refused tap, empty pool, lost
\* websocket or failure of another call keeps anyone from the dialplan.
THEOREM CallersAreHandedBack == Spec => []HandedBack
<1>1. Init => HandedBack
  BY DEF Init, HandedBack
<1>2. IInv /\ HandedBack /\ [Next]_vars => HandedBack'
  BY NextHandedBack
<1> QED
  BY <1>1, <1>2, IInvHolds, PTL DEF Spec
=============================================================================
