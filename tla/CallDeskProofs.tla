---------------------------- MODULE CallDeskProofs ----------------------------
(***************************************************************************)
(* Proofs about CallDesk, for any conversations, agents and queue roster.  *)
(***************************************************************************)
EXTENDS CallDesk, TLAPS

USE DeskAssumption

-----------------------------------------------------------------------------
(* The inductive invariant. *)

\* No conversation exists yet.
LEMMA InitIInv == Init => IInv
BY DEF Init, IInv, TypeOK, AgentStatus, Live, SessionIsVoice, AssignedIffWorked, OneJobPerCall,
       DepartedIsDisposed, LiveCallHasOwner

\* Every handler keeps every conjunct.
LEMMA IInvInductive == IInv /\ [Next]_vars => IInv'
<1> SUFFICES ASSUME IInv, [Next]_vars PROVE IInv'
  OBVIOUS
<1> USE DEF IInv, TypeOK, AgentStatus, Live, SessionIsVoice, AssignedIffWorked, OneJobPerCall,
            DepartedIsDisposed, LiveCallHasOwner, conversationVars, lineVars, presenceVars
<1>1. ASSUME NEW c \in Calls, NEW k \in {"voice", "chat"}, NEW q \in BOOLEAN,
             CreateConversation(c, k, q)
      PROVE IInv'
  BY <1>1 DEF CreateConversation, Enqueue
<1>2. ASSUME NEW c \in Calls, RingInbound(c) PROVE IInv'
  BY <1>2 DEF RingInbound, Enqueue
<1>3. ASSUME NEW c \in Calls, WrapUp(c) PROVE IInv'
  BY <1>3 DEF WrapUp
<1>4. ASSUME NEW c \in Calls, WriteSummary(c) PROVE IInv'
  BY <1>4 DEF WriteSummary
<1>5. ASSUME NEW c \in Calls, NEW a \in Agents, Dial(c, a) PROVE IInv'
  BY <1>5 DEF Dial, Occupy
<1>6. ASSUME NEW c \in Calls, NEW a \in Agents, Assign(c, a) PROVE IInv'
  BY <1>6 DEF Assign, Occupy
<1>7. ASSUME NEW c \in Calls, NEW a \in Agents, Claim(c, a) PROVE IInv'
  BY <1>7 DEF Claim, Occupy
<1>8. ASSUME NEW c \in Calls, NEW a \in Agents, Reject(c, a) PROVE IInv'
  BY <1>8 DEF Reject
<1>9. ASSUME NEW c \in Calls, NEW a \in Agents, NEW s \in Live, SetHeld(c, a, s) PROVE IInv'
  BY <1>9 DEF SetHeld, MayControl
<1>10. ASSUME NEW c \in Calls, NEW a \in Agents, HangUp(c, a) PROVE IInv'
  BY <1>10 DEF HangUp, MayControl
<1>11. ASSUME NEW a \in Agents, NEW s \in AgentStatus, UpdatePresence(a, s) PROVE IInv'
  BY <1>11 DEF UpdatePresence
<1>12. CASE UNCHANGED vars
  BY <1>12 DEF vars
<1> QED
  BY <1>1, <1>2, <1>3, <1>4, <1>5, <1>6, <1>7, <1>8, <1>9, <1>10, <1>11, <1>12
     DEF Next, RegisterLiveInbound

\* The inductive invariant holds in every reachable state.
THEOREM IInvHolds == Spec => []IInv
BY InitIInv, IInvInductive, PTL DEF Spec

\* Only unassigned conversations are offered, claimed or refused, whoever else
\* assigns, dials, hangs up or wraps up.
THEOREM QueueHoldsUnassigned == Spec => []AssignedIffWorked
<1>1. IInv => AssignedIffWorked
  BY DEF IInv
<1> QED
  BY IInvHolds, <1>1, PTL

\* Every hung-up call has one finalization job, and no other call has any.
THEOREM HungUpHasOneJob == Spec => []OneJobPerCall
<1>1. IInv => OneJobPerCall
  BY DEF IInv
<1> QED
  BY IInvHolds, <1>1, PTL

\* A live call always has an agent who can hang it up.
THEOREM LiveCallIsOwned == Spec => []LiveCallHasOwner
<1>1. IInv => LiveCallHasOwner
  BY DEF IInv
<1> QED
  BY IInvHolds, <1>1, PTL

\* A conversation that failed or was closed says how it left the desk.
THEOREM DepartureIsDisposed == Spec => []DepartedIsDisposed
<1>1. IInv => DepartedIsDisposed
  BY DEF IInv
<1> QED
  BY IInvHolds, <1>1, PTL

\* Whoever is given a conversation, by a supervisor, a claim or a dial, is shown
\* busy with it from that step on.
THEOREM NewOwnersAreOccupied == Spec => NewOwnerIsOccupied
<1> DEFINE Given ==
      \A c \in Calls : assignee'[c] # assignee[c] =>
          /\ presence'[assignee'[c]] = "busy"
          /\ current'[assignee'[c]] = c
<1>1. ASSUME TypeOK, [Next]_vars PROVE Given
  <2> USE <1>1 DEF TypeOK
  <2>1. ASSUME NEW c \in Calls, NEW a \in Agents, Assign(c, a) \/ Claim(c, a) \/ Dial(c, a)
        PROVE Given
    BY <2>1 DEF Assign, Claim, Dial, Occupy
  <2>2. ASSUME NEW c \in Calls, UNCHANGED assignee PROVE Given
    BY <2>2
  <2>3. CASE UNCHANGED vars
    BY <2>3 DEF vars, conversationVars
  <2> QED
    BY <1>1, <2>1, <2>2, <2>3
       DEF Next, CreateConversation, RingInbound, RegisterLiveInbound, Enqueue, WrapUp,
           WriteSummary, Reject, SetHeld, HangUp, UpdatePresence, conversationVars
<1>2. IInv => TypeOK
  BY DEF IInv
<1> QED
  BY IInvHolds, <1>1, <1>2, PTL DEF Spec, NewOwnerIsOccupied

-----------------------------------------------------------------------------
(* The desk implements CallLine. *)

\* A handler that leaves the sessions and the jobs alone is a stutter.
LEMMA StutterRefines == UNCHANGED <<session, jobs>> => UNCHANGED OneLine!vars
BY DEF Line, OneLine!vars

\* Every handler is a step of the line, or leaves it alone.
LEMMA StepRefines == IInv /\ [Next]_vars => [OneLine!Next]_(OneLine!vars)
<1> SUFFICES ASSUME IInv, [Next]_vars PROVE [OneLine!Next]_(OneLine!vars)
  OBVIOUS
<1> USE DEF IInv, TypeOK, SessionIsVoice, LiveCallHasOwner, lineVars, Live
<1>1. ASSUME NEW c \in Calls, NEW k \in {"voice", "chat"}, NEW q \in BOOLEAN,
             CreateConversation(c, k, q)
      PROVE UNCHANGED OneLine!vars
  BY <1>1, StutterRefines DEF CreateConversation, Enqueue
<1>2. ASSUME NEW c \in Calls, RingInbound(c) PROVE OneLine!Begin(c)
  BY <1>2 DEF RingInbound, Enqueue, OneLine!Begin, Line
<1>3. ASSUME NEW c \in Calls, WrapUp(c) \/ WriteSummary(c) PROVE UNCHANGED OneLine!vars
  BY <1>3, StutterRefines DEF WrapUp, WriteSummary
<1>4. ASSUME NEW c \in Calls, NEW a \in Agents, Dial(c, a) PROVE OneLine!Begin(c)
  BY <1>4 DEF Dial, OneLine!Begin, Line
<1>5. ASSUME NEW c \in Calls, NEW a \in Agents, Assign(c, a) PROVE UNCHANGED OneLine!vars
  BY <1>5, StutterRefines DEF Assign
<1>6. ASSUME NEW c \in Calls, NEW a \in Agents, Claim(c, a)
      PROVE [OneLine!Next]_(OneLine!vars)
  <2>1. CASE session[c] = "none"
    <3>1. UNCHANGED <<session, jobs>>
      BY <1>6, <2>1 DEF Claim
    <3> QED
      BY <3>1, StutterRefines
  <2>2. CASE session[c] # "none"
    <3>1. OneLine!Answer(c)
      BY <1>6, <2>2 DEF Claim, OneLine!Answer, Line
    <3> QED
      BY <3>1 DEF OneLine!Next
  <2> QED
    BY <2>1, <2>2
<1>7. ASSUME NEW c \in Calls, NEW a \in Agents, Reject(c, a) PROVE OneLine!Answer(c)
  BY <1>7 DEF Reject, OneLine!Answer, Line
<1>8. ASSUME NEW c \in Calls, NEW a \in Agents, NEW s \in Live, SetHeld(c, a, s)
      PROVE UNCHANGED OneLine!vars
  BY <1>8 DEF SetHeld, MayControl, OneLine!vars, Line
<1>9. ASSUME NEW c \in Calls, NEW a \in Agents, HangUp(c, a) PROVE OneLine!HangUp(c)
  BY <1>9 DEF HangUp, MayControl, OneLine!HangUp, Line
<1>10. ASSUME NEW a \in Agents, NEW s \in AgentStatus, UpdatePresence(a, s)
       PROVE UNCHANGED OneLine!vars
  BY <1>10, StutterRefines DEF UpdatePresence
<1>11. CASE UNCHANGED vars
  BY <1>11, StutterRefines DEF vars
<1> QED
  BY <1>1, <1>2, <1>3, <1>4, <1>5, <1>6, <1>7, <1>8, <1>9, <1>10, <1>11
     DEF Next, RegisterLiveInbound, OneLine!Next

\* A line stops once and for ever, and owes its finalization in that step.
THEOREM DeskImplementsCallLine == Spec => CallLineSpec
<1>1. Init => OneLine!Init
  BY DEF Init, OneLine!Init, Line, Live
<1> QED
  BY <1>1, StepRefines, IInvHolds, PTL DEF Spec, CallLineSpec, OneLine!Spec
=============================================================================
