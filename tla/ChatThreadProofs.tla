--------------------------- MODULE ChatThreadProofs ---------------------------
(***************************************************************************)
(* The numbers and the speakers of ChatThread's messages, for any chats,   *)
(* agents and supervisors and any number of messages and polls.            *)
(***************************************************************************)
EXTENDS ChatThread, SequenceTheorems, TLAPS

\* A sequence with one element taken out of it.
LEMMA WithoutOne ==
  ASSUME NEW S, NEW s \in Seq(S), NEW i \in DOMAIN s
  PROVE  RemoveAt(s, i) \in Seq(S)
<1>1. Len(s) \in Nat /\ DOMAIN s = 1 .. Len(s)
  BY LenProperties
<1>2. SubSeq(s, 1, i - 1) \in Seq(S)
  BY <1>1, SubSeqProperties
<1>3. SubSeq(s, i + 1, Len(s)) \in Seq(S)
  BY <1>1, SubSeqProperties
<1> QED
  BY <1>2, <1>3, ConcatProperties DEF RemoveAt

\* The handlers of the desk that the thread composes keep the desk's types.
LEMMA DeskTypes ==
  ASSUME ThreadAssumption, Desk!TypeOK, NEW c \in Calls,
         \/ \E q \in BOOLEAN : Desk!CreateConversation(c, "chat", q)
         \/ \E a \in Agents : Desk!Assign(c, a) \/ Desk!Claim(c, a)
         \/ Desk!WrapUp(c)
  PROVE  Desk!TypeOK'
<1> USE DEF Desk!TypeOK, Desk!AgentStatus, Desk!lineVars, Desk!presenceVars
<1>1. ASSUME NEW q \in BOOLEAN, Desk!CreateConversation(c, "chat", q) PROVE Desk!TypeOK'
  BY <1>1 DEF Desk!CreateConversation, Desk!Enqueue
<1>2. ASSUME NEW a \in Agents, Desk!Assign(c, a) PROVE Desk!TypeOK'
  BY <1>2 DEF Desk!Assign, Desk!Occupy
<1>3. ASSUME NEW a \in Agents, Desk!Claim(c, a) PROVE Desk!TypeOK'
  BY <1>3 DEF Desk!Claim, Desk!Occupy
<1>4. CASE Desk!WrapUp(c)
  BY <1>4, ThreadAssumption DEF Desk!WrapUp
<1> QED
  BY <1>1, <1>2, <1>3, <1>4

\* What the handlers of the desk do to what the thread depends on.
LEMMA DeskFacts ==
  ASSUME Desk!TypeOK, NEW c \in Calls, kind[c] = "none" => status[c] = "none",
         \/ \E q \in BOOLEAN : Desk!CreateConversation(c, "chat", q)
         \/ \E a \in Agents : Desk!Assign(c, a) \/ Desk!Claim(c, a)
         \/ Desk!WrapUp(c)
  PROVE  /\ kind'[c] # "none"
         /\ status'[c] = "closed" => disposition'[c] = "resolved"
         /\ disposition[c] = "resolved" => disposition'[c] = "resolved"
         /\ \A x \in Calls : x # c =>
               /\ status'[x] = status[x] /\ assignee'[x] = assignee[x]
               /\ kind'[x] = kind[x] /\ disposition'[x] = disposition[x]
<1> USE DEF Desk!TypeOK, Desk!lineVars, Desk!presenceVars
<1> DEFINE Goal == /\ kind'[c] # "none"
                   /\ status'[c] = "closed" => disposition'[c] = "resolved"
                   /\ disposition[c] = "resolved" => disposition'[c] = "resolved"
                   /\ \A x \in Calls : x # c =>
                         /\ status'[x] = status[x] /\ assignee'[x] = assignee[x]
                         /\ kind'[x] = kind[x] /\ disposition'[x] = disposition[x]
<1>1. ASSUME NEW q \in BOOLEAN, Desk!CreateConversation(c, "chat", q) PROVE Goal
  BY <1>1 DEF Desk!CreateConversation, Desk!Enqueue
<1>2. ASSUME NEW a \in Agents, Desk!Assign(c, a) PROVE Goal
  BY <1>2 DEF Desk!Assign
<1>3. ASSUME NEW a \in Agents, Desk!Claim(c, a) PROVE Goal
  BY <1>3 DEF Desk!Claim
<1>4. CASE Desk!WrapUp(c)
  BY <1>4 DEF Desk!WrapUp
<1> QED
  BY <1>1, <1>2, <1>3, <1>4

\* A thread that is numbered 1, 2, 3 ... gets its next number.
LEMMA NextIsNext ==
  ASSUME TypeOK, ThreadIsNumbered, NEW c \in Calls
  PROVE  NextNumber(c) = Len(thread[c]) + 1
<1> DEFINE t == thread[c]
           N == {t[i].number : i \in DOMAIN t}
<1>1. t \in Seq(Messages) /\ Len(t) \in Nat /\ DOMAIN t = 1 .. Len(t) /\ (t = <<>> <=> Len(t) = 0)
  BY LenProperties, EmptySeq DEF TypeOK
<1>2. \A i \in 1 .. Len(t) : t[i].number = i
  BY <1>1 DEF ThreadIsNumbered
<1>3. N = 1 .. Len(t)
  BY <1>1, <1>2
<1>4. CASE t # <<>>
  <2>1. Len(t) \in N /\ \A y \in N : Len(t) >= y
    BY <1>1, <1>3, <1>4
  <2>2. Max(N) \in N /\ \A y \in N : Max(N) >= y
    BY <2>1 DEF Max
  <2>3. Max(N) \in 1 .. Len(t) /\ Max(N) >= Len(t)
    BY <1>3, <2>1, <2>2
  <2>4. Max(N) = Len(t)
    <3> HIDE DEF N, t
    <3> QED
      BY <1>1, <2>3
  <2> QED
    BY <1>4, <2>4 DEF NextNumber
<1>5. CASE t = <<>>
  BY <1>1, <1>5 DEF NextNumber
<1> QED
  BY <1>4, <1>5

\* A thread with one more message, numbered next.
LEMMA OneMore ==
  ASSUME NEW t \in Seq(Messages), \A i \in DOMAIN t : t[i].number = i,
         NEW m \in Messages, m.number = Len(t) + 1, NEW u, u = Append(t, m)
  PROVE  u \in Seq(Messages) /\ u # <<>> /\ u[Len(u)] = m /\ \A i \in DOMAIN u : u[i].number = i
<1>1. Len(t) \in Nat /\ DOMAIN t = 1 .. Len(t)
  BY LenProperties
<1>2. /\ u \in Seq(Messages) /\ Len(u) = Len(t) + 1
      /\ \A i \in 1 .. Len(t) : u[i] = t[i]
      /\ u[Len(t) + 1] = m
  BY AppendProperties
<1>3. DOMAIN u = 1 .. Len(t) + 1 /\ u # <<>>
  BY <1>1, <1>2, LenProperties, EmptySeq
<1> QED
  BY <1>1, <1>2, <1>3

LEMMA InitIInv == Init => IInv
<1> SUFFICES ASSUME Init PROVE IInv
  OBVIOUS
<1>1. <<>> \in Seq(Messages) /\ <<>> \in Seq(Views) /\ DOMAIN <<>> = {}
  OBVIOUS
<1>2. TypeOK
  BY <1>1, ThreadAssumption DEF Init, TypeOK, Desk!Init, Desk!TypeOK, Desk!AgentStatus, Views
<1>3. ThreadIsNumbered /\ RatedIsResolved /\ HandlerIsSole /\ HandlerIsRight
  BY <1>1 DEF Init, ThreadIsNumbered, RatedIsResolved, HandlerIsSole, HandlerIsRight
<1>4. ClosedIsResolved
  BY DEF Init, Desk!Init, ClosedIsResolved
<1> QED
  BY <1>2, <1>3, <1>4 DEF IInv

\* A desk step that finds the event loop free, or creates the conversation.
LEMMA DeskKeeps ==
  ASSUME IInv, NEW c \in Calls,
         \/ \E q \in BOOLEAN : Desk!CreateConversation(c, "chat", q)
         \/ /\ LoopIsFree
            /\ \/ \E a \in Agents : Desk!Assign(c, a) \/ Desk!Claim(c, a)
               \/ Desk!WrapUp(c),
         UNCHANGED <<handling, surveying, rated>>,
         thread' = thread \/ (LoopIsFree /\ thread' = [thread EXCEPT ![c] = <<[from |-> Customer, number |-> 1]>>])
  PROVE  /\ Desk!TypeOK' /\ thread' \in [Calls -> Seq(Messages)]
         /\ ThreadIsNumbered' /\ RatedIsResolved'
         /\ HandlerIsSole' /\ HandlerIsRight' /\ ClosedIsResolved'
<1>1. Desk!TypeOK'
  BY DeskTypes, ThreadAssumption DEF IInv, TypeOK
<1>2. /\ kind'[c] # "none"
      /\ status'[c] = "closed" => disposition'[c] = "resolved"
      /\ disposition[c] = "resolved" => disposition'[c] = "resolved"
      /\ \A x \in Calls : x # c =>
            /\ status'[x] = status[x] /\ assignee'[x] = assignee[x]
            /\ kind'[x] = kind[x] /\ disposition'[x] = disposition[x]
  BY DeskFacts DEF IInv, TypeOK, ClosedIsResolved
<1> DEFINE m == [from |-> Customer, number |-> 1]
<1>3. /\ m \in Messages /\ <<m>> \in Seq(Messages)
      /\ \A i \in DOMAIN <<m>> : <<m>>[i].number = i
  BY DEF Messages, Speakers
<1>4. thread' \in [Calls -> Seq(Messages)] /\ ThreadIsNumbered'
  BY <1>3 DEF IInv, TypeOK, ThreadIsNumbered
<1>5. RatedIsResolved' /\ ClosedIsResolved'
  BY <1>2 DEF IInv, TypeOK, RatedIsResolved, ClosedIsResolved
<1>6. \A h \in handling : h \in Handlers /\ h.chat \in Calls
  BY DEF IInv, TypeOK, Handlers
<1>7. HandlerIsSole' /\ HandlerIsRight'
  <2>1. CASE handling = {}
    BY <2>1 DEF HandlerIsSole, HandlerIsRight
  <2>2. CASE handling # {}
    <3>1. kind[c] = "none" /\ status[c] = "none" /\ thread' = thread
      BY <2>2 DEF LoopIsFree, Desk!CreateConversation, Desk!Enqueue, IInv, ClosedIsResolved
    <3>2. \A h \in handling : h.chat # c
      BY <3>1 DEF IInv, HandlerIsRight
    <3> QED
      BY <1>2, <1>6, <3>1, <3>2 DEF IInv, HandlerIsSole, HandlerIsRight
  <2> QED
    BY <2>1, <2>2
<1> QED
  BY <1>1, <1>4, <1>5, <1>7

LEMMA NextIInv == IInv /\ [Next]_vars => IInv'
<1> SUFFICES ASSUME IInv, [Next]_vars PROVE IInv'
  OBVIOUS
<1>1. ASSUME NEW c \in Calls, StartChat(c) PROVE IInv'
  <2>1. /\ Desk!CreateConversation(c, "chat", TRUE) /\ LoopIsFree
        /\ UNCHANGED <<handling, surveying, rated, widget, polls>>
        /\ thread' = [thread EXCEPT ![c] = <<[from |-> Customer, number |-> 1]>>]
        /\ admitted' = admitted \cup {c}
    BY <1>1 DEF StartChat, customerVars
  <2>2. /\ Desk!TypeOK' /\ thread' \in [Calls -> Seq(Messages)]
        /\ ThreadIsNumbered' /\ RatedIsResolved'
        /\ HandlerIsSole' /\ HandlerIsRight' /\ ClosedIsResolved'
    BY <2>1, DeskKeeps
  <2> QED
    BY <2>1, <2>2 DEF IInv, TypeOK
<1>2. ASSUME NEW c \in Calls, DeskStep(c) PROVE IInv'
  <2>1. /\ \/ \E q \in BOOLEAN : Desk!CreateConversation(c, "chat", q)
           \/ /\ LoopIsFree
              /\ \/ \E a \in Agents : Desk!Assign(c, a) \/ Desk!Claim(c, a)
                 \/ Desk!WrapUp(c)
        /\ UNCHANGED <<thread, handling, admitted, surveying, rated, widget, polls>>
    BY <1>2 DEF DeskStep, WrapUp, threadVars, customerVars
  <2>2. /\ Desk!TypeOK' /\ thread' \in [Calls -> Seq(Messages)]
        /\ ThreadIsNumbered' /\ RatedIsResolved'
        /\ HandlerIsSole' /\ HandlerIsRight' /\ ClosedIsResolved'
    BY <2>1, DeskKeeps
  <2> QED
    BY <2>1, <2>2 DEF IInv, TypeOK
<1>3. ASSUME NEW c \in Calls, NEW u \in Speakers, SendBegins(c, u) PROVE IInv'
  <2> DEFINE h == [chat |-> c, from |-> u, number |-> NextNumber(c)]
  <2>1. /\ handling' = {h} /\ MaySpeak(u, c)
        /\ UNCHANGED deskVars /\ UNCHANGED <<thread, admitted, surveying, rated, widget, polls>>
    BY <1>3 DEF SendBegins, LoopIsFree, customerVars
  <2>2. h \in Handlers /\ h.chat = c /\ h.from = u /\ h.number = Len(thread[c]) + 1
    BY NextIsNext, LenProperties DEF IInv, TypeOK, Handlers
  <2> HIDE DEF h
  <2>3. HandlerIsSole' /\ HandlerIsRight'
    BY <2>1, <2>2 DEF deskVars, HandlerIsSole, HandlerIsRight, MaySpeak
  <2>4. TypeOK' /\ ThreadIsNumbered' /\ RatedIsResolved' /\ ClosedIsResolved'
    BY <2>1, <2>2 DEF IInv, TypeOK, Desk!TypeOK, deskVars, ThreadIsNumbered, RatedIsResolved, ClosedIsResolved
  <2> QED
    BY <2>3, <2>4 DEF IInv
<1>4. ASSUME NEW h \in handling, SendEnds(h) PROVE IInv'
  <2> DEFINE m == [from |-> h.from, number |-> h.number]
  <2>1. /\ handling' = {} /\ thread' = [thread EXCEPT ![h.chat] = Append(@, m)]
        /\ UNCHANGED deskVars /\ UNCHANGED <<admitted, surveying, rated, widget, polls>>
    BY <1>4 DEF SendEnds, customerVars, IInv, HandlerIsSole
  <2>2. /\ h.chat \in Calls /\ m \in Messages /\ m.number = Len(thread[h.chat]) + 1
        /\ status[h.chat] # "none"
    BY DEF IInv, TypeOK, Handlers, Messages, HandlerIsRight
  <2> HIDE DEF m
  <2>3. /\ thread[h.chat] \in Seq(Messages)
        /\ \A i \in DOMAIN thread[h.chat] : thread[h.chat][i].number = i
    BY <2>2 DEF IInv, TypeOK, ThreadIsNumbered
  <2>4. /\ thread'[h.chat] = Append(thread[h.chat], m)
        /\ \A x \in Calls : x # h.chat => thread'[x] = thread[x]
    BY <2>1, <2>2 DEF IInv, TypeOK
  <2>5. /\ thread'[h.chat] \in Seq(Messages)
        /\ \A i \in DOMAIN thread'[h.chat] : thread'[h.chat][i].number = i
    BY <2>2, <2>3, <2>4, OneMore
  <2>6. TypeOK'
    BY <2>1, <2>5 DEF IInv, TypeOK, Desk!TypeOK, deskVars
  <2>7. ThreadIsNumbered'
    BY <2>4, <2>5 DEF IInv, ThreadIsNumbered
  <2>8. ClosedIsResolved'
    BY <2>1, <2>2, <2>4 DEF IInv, ClosedIsResolved, deskVars
  <2>9. RatedIsResolved' /\ HandlerIsSole' /\ HandlerIsRight'
    BY <2>1 DEF IInv, RatedIsResolved, HandlerIsSole, HandlerIsRight, deskVars
  <2> QED
    BY <2>6, <2>7, <2>8, <2>9 DEF IInv
<1>5. ASSUME NEW c \in Calls,
             \/ Expire(c) \/ Poll(c) \/ (\E i \in DOMAIN polls[c] : PollArrives(c, i))
             \/ SurveyBegins(c) \/ SurveyEnds(c)
      PROVE  IInv'
  <2>1. UNCHANGED deskVars /\ UNCHANGED <<thread, handling>> /\ admitted' \subseteq admitted
    BY <1>5 DEF Expire, Poll, PollArrives, SurveyBegins, SurveyEnds, threadVars
  <2>2. widget' \in [Calls -> Views] /\ polls' \in [Calls -> Seq(Views)]
    <3>1. CASE Expire(c) \/ SurveyBegins(c) \/ SurveyEnds(c)
      BY <3>1 DEF Expire, SurveyBegins, SurveyEnds, customerVars, IInv, TypeOK
    <3>2. CASE Poll(c)
      <4>1. View(c) \in Views
        BY LenProperties DEF View, Views, IInv, TypeOK, Desk!TypeOK
      <4>2. Append(polls[c], View(c)) \in Seq(Views)
        BY <4>1, AppendProperties DEF IInv, TypeOK
      <4> QED
        BY <3>2, <4>2 DEF Poll, IInv, TypeOK
    <3>3. ASSUME NEW i \in DOMAIN polls[c], PollArrives(c, i) PROVE widget' \in [Calls -> Views] /\ polls' \in [Calls -> Seq(Views)]
      <4>1. polls[c] \in Seq(Views) /\ RemoveAt(polls[c], i) \in Seq(Views) /\ polls[c][i] \in Views
        BY WithoutOne, ElementOfSeq, LenProperties DEF IInv, TypeOK
      <4> QED
        BY <3>3, <4>1 DEF PollArrives, IInv, TypeOK
    <3> QED
      BY <1>5, <3>1, <3>2, <3>3
  <2>3. /\ surveying' \subseteq Calls /\ rated' \subseteq Calls
        /\ \A x \in surveying' \cup rated' : disposition[x] = "resolved"
    BY <1>5 DEF Expire, Poll, PollArrives, SurveyBegins, SurveyEnds, customerVars,
                IInv, TypeOK, RatedIsResolved, ClosedIsResolved
  <2>4. TypeOK'
    BY <2>1, <2>2, <2>3 DEF IInv, TypeOK, Desk!TypeOK, deskVars
  <2>5. RatedIsResolved' /\ ClosedIsResolved'
    BY <2>1, <2>3 DEF IInv, RatedIsResolved, ClosedIsResolved, deskVars
  <2>6. ThreadIsNumbered' /\ HandlerIsSole' /\ HandlerIsRight'
    BY <2>1 DEF IInv, ThreadIsNumbered, HandlerIsSole, HandlerIsRight, deskVars
  <2> QED
    BY <2>4, <2>5, <2>6 DEF IInv
<1>6. CASE UNCHANGED vars
  <2>1. UNCHANGED deskVars /\ UNCHANGED <<thread, handling, admitted, surveying, rated, widget, polls>>
    BY <1>6 DEF vars, threadVars, customerVars
  <2>2. TypeOK'
    BY <2>1 DEF IInv, TypeOK, Desk!TypeOK, deskVars
  <2> QED
    BY <2>1, <2>2 DEF IInv, deskVars, ThreadIsNumbered, RatedIsResolved, HandlerIsSole, HandlerIsRight,
                      ClosedIsResolved
<1> QED
  BY <1>1, <1>2, <1>3, <1>4, <1>5, <1>6 DEF Next

\* The inductive invariant, type correctness included.
THEOREM IInvHolds == Spec => []IInv
  BY InitIInv, NextIInv, PTL DEF Spec

\* The messages of each conversation are numbered 1, 2, 3 ... in the order of their
\* commits.
THEOREM ThreadsAreNumbered == Spec => []ThreadIsNumbered
  BY IInvHolds, PTL DEF IInv

\* Only chats that were resolved are rated.
THEOREM OnlyResolvedIsRated == Spec => []RatedIsResolved
  BY IInvHolds, PTL DEF IInv

\* No message joins a chat whose sender may no longer speak there.
THEOREM OnlySpeakersSpeak == Spec => SpeakersMaySpeak
<1> DEFINE A == \A c \in Calls : thread'[c] # thread[c] /\ thread[c] # <<>> =>
                   LET u == thread'[c][Len(thread'[c])].from
                   IN IF u = Customer THEN status[c] \in {"queued", "active"}
                      ELSE status[c] = "active" /\ (u \in Agents => assignee[c] = u)
<1>1. IInv /\ [Next]_vars => [A]_vars
  <2> SUFFICES ASSUME IInv, Next, NEW c \in Calls, thread'[c] # thread[c], thread[c] # <<>>
               PROVE  LET u == thread'[c][Len(thread'[c])].from
                      IN IF u = Customer THEN status[c] \in {"queued", "active"}
                         ELSE status[c] = "active" /\ (u \in Agents => assignee[c] = u)
    OBVIOUS
  <2>1. PICK h \in handling : SendEnds(h)
    <3>1. ASSUME NEW x \in Calls, StartChat(x) PROVE thread'[c] = thread[c]
      <4>1. thread[x] = <<>> /\ thread' = [thread EXCEPT ![x] = <<[from |-> Customer, number |-> 1]>>]
        BY <3>1 DEF StartChat, Desk!CreateConversation, Desk!Enqueue, IInv, ClosedIsResolved
      <4> QED
        BY <4>1 DEF IInv, TypeOK
    <3>2. ASSUME ~\E h \in handling : SendEnds(h), ~\E x \in Calls : StartChat(x)
          PROVE  thread' = thread
      BY <3>2 DEF Next, DeskStep, SendBegins, Expire, Poll, PollArrives, SurveyBegins, SurveyEnds, threadVars
    <3> QED
      BY <3>1, <3>2
  <2> DEFINE m == [from |-> h.from, number |-> h.number]
  <2>2. thread' = [thread EXCEPT ![h.chat] = Append(@, m)]
    BY <2>1 DEF SendEnds
  <2>3. /\ h.chat \in Calls /\ m \in Messages /\ m.number = Len(thread[h.chat]) + 1 /\ m.from = h.from
    BY DEF IInv, TypeOK, Handlers, Messages, HandlerIsRight
  <2> HIDE DEF m
  <2>4. c = h.chat /\ thread'[c] = Append(thread[c], m)
    BY <2>2, <2>3 DEF IInv, TypeOK
  <2>5. thread'[c][Len(thread'[c])] = m
    BY <2>3, <2>4, OneMore DEF IInv, TypeOK, ThreadIsNumbered
  <2> QED
    BY <2>3, <2>4, <2>5 DEF IInv, HandlerIsRight
<1> QED
  BY <1>1, IInvHolds, PTL DEF Spec, SpeakersMaySpeak

\* The customer, the widget and the senders of messages leave the desk to its own
\* handlers: what is proved of the desk holds of it beside the threads.
THEOREM ThreadUsesDesk == Spec => Desk!Spec
<1>1. Init => Desk!Init
  BY DEF Init
<1>2. [Next]_vars => [Desk!Next]_(Desk!vars)
  <2> SUFFICES ASSUME [Next]_vars PROVE Desk!Next \/ UNCHANGED deskVars
    BY DEF deskVars, Desk!vars, Desk!conversationVars, Desk!lineVars, Desk!presenceVars
  <2>1. ASSUME NEW c \in Calls, StartChat(c) \/ DeskStep(c) PROVE Desk!Next
    BY <2>1 DEF StartChat, DeskStep, WrapUp, Desk!Next
  <2>2. ASSUME NEW c \in Calls,
               \/ \E u \in Speakers : SendBegins(c, u)
               \/ Expire(c) \/ Poll(c) \/ (\E i \in DOMAIN polls[c] : PollArrives(c, i))
               \/ SurveyBegins(c) \/ SurveyEnds(c)
        PROVE  UNCHANGED deskVars
    BY <2>2 DEF SendBegins, Expire, Poll, PollArrives, SurveyBegins, SurveyEnds
  <2>3. ASSUME NEW h \in handling, SendEnds(h) PROVE UNCHANGED deskVars
    BY <2>3 DEF SendEnds
  <2>4. CASE UNCHANGED vars
    BY <2>4 DEF vars
  <2> QED
    BY <2>1, <2>2, <2>3, <2>4 DEF Next
<1> QED
  BY <1>1, <1>2, PTL DEF Spec, Desk!Spec
=============================================================================
