---------------------------- MODULE LiveFloorProofs ----------------------------
(***************************************************************************)
(* What a page of LiveFloor shows when it is at rest, for any chats,       *)
(* agents, supervisors, tabs and any number of events and requests.        *)
(***************************************************************************)
EXTENDS LiveFloor, SequenceTheorems, WellFoundedInduction, TLAPS

-----------------------------------------------------------------------------
(* The requests a page awaits, as sequences. *)

NoLists(q) == \A i \in DOMAIN q : q[i].what # "lists"

\* i is the last request for lists in q.
LastLists(q, i) ==
    /\ i \in DOMAIN q /\ q[i].what = "lists"
    /\ \A j \in DOMAIN q : q[j].what = "lists" => j <= i

Awaits(q) == \E i \in DOMAIN q : q[i].what = "lists" /\ ~q[i].served

Orderly(q) ==
    /\ \A i, j \in DOMAIN q : i < j /\ q[j].served => q[i].served
    /\ \A i \in DOMAIN q : q[i].what = "panel" => q[i].of \in Calls

\* What answering or removing a request must keep.
Keeps(q, r) ==
    /\ \A i \in DOMAIN r : LastLists(r, i) =>
          \E j \in DOMAIN q : LastLists(q, j) /\ q[j].lists = r[i].lists
    /\ Awaits(q) => Awaits(r)

\* The elements of a sequence one longer.
LEMMA Appended ==
  ASSUME NEW q \in Seq(Fetches), NEW f \in Fetches, NEW r, r = Append(q, f)
  PROVE  /\ r \in Seq(Fetches) /\ Len(q) \in Nat /\ Len(r) = Len(q) + 1
         /\ DOMAIN q = 1 .. Len(q) /\ DOMAIN r = 1 .. Len(q) + 1
         /\ \A j \in 1 .. Len(q) : r[j] = q[j]
         /\ r[Len(q) + 1] = f
  BY AppendProperties, LenProperties

\* ... of a sequence one shorter ...
LEMMA Removed ==
  ASSUME NEW q \in Seq(Fetches), NEW i \in DOMAIN q, NEW r, r = RemoveAt(q, i)
  PROVE  /\ r \in Seq(Fetches) /\ Len(q) \in Nat \ {0} /\ Len(r) = Len(q) - 1
         /\ DOMAIN q = 1 .. Len(q) /\ DOMAIN r = 1 .. Len(q) - 1
         /\ \A j \in 1 .. Len(q) - 1 : r[j] = IF j < i THEN q[j] ELSE q[j + 1]
<1> DEFINE n == Len(q)
           a == SubSeq(q, 1, i - 1)
           b == SubSeq(q, i + 1, n)
<1>1. n \in Nat /\ DOMAIN q = 1 .. n /\ i \in 1 .. n
  BY LenProperties
<1>2. a \in Seq(Fetches) /\ Len(a) = i - 1 /\ \A j \in 1 .. i - 1 : a[j] = q[j]
  BY <1>1, SubSeqProperties
<1>3. b \in Seq(Fetches) /\ Len(b) = n - i /\ \A j \in 1 .. n - i : b[j] = q[i + j]
  BY <1>1, SubSeqProperties
<1>4. r = a \o b
  BY DEF RemoveAt
<1> HIDE DEF n, a, b
<1>5. /\ r \in Seq(Fetches) /\ Len(r) = Len(a) + Len(b)
      /\ \A j \in 1 .. Len(a) + Len(b) : r[j] = IF j <= Len(a) THEN a[j] ELSE b[j - Len(a)]
  BY <1>2, <1>3, <1>4, ConcatProperties
<1>6. Len(r) = n - 1 /\ DOMAIN r = 1 .. n - 1
  BY <1>1, <1>2, <1>3, <1>5, LenProperties
<1>7. ASSUME NEW j \in 1 .. n - 1 PROVE r[j] = IF j < i THEN q[j] ELSE q[j + 1]
  <2>1. r[j] = IF j <= i - 1 THEN a[j] ELSE b[j - (i - 1)]
    BY <1>1, <1>2, <1>3, <1>5
  <2>2. CASE j < i
    <3>1. j \in 1 .. i - 1
      BY <1>1, <2>2
    <3> QED
      BY <1>1, <1>2, <2>1, <3>1, <2>2
  <2>3. CASE ~(j < i)
    <3>1. j - (i - 1) \in 1 .. n - i /\ i + (j - (i - 1)) = j + 1 /\ ~(j <= i - 1)
      BY <1>1, <2>3
    <3>2. r[j] = b[j - (i - 1)]
      BY <2>1, <3>1
    <3>3. b[j - (i - 1)] = q[i + (j - (i - 1))]
      BY <1>3, <3>1
    <3> QED
      BY <2>3, <3>1, <3>2, <3>3
  <2> QED
    BY <2>2, <2>3
<1>8. n \in Nat \ {0}
  BY <1>1
<1> QED
  BY <1>1, <1>5, <1>6, <1>7, <1>8 DEF n

\* ... and of a sequence with one element replaced.
LEMMA Replaced ==
  ASSUME NEW q \in Seq(Fetches), NEW i \in DOMAIN q, NEW f \in Fetches,
         NEW r, r = [q EXCEPT ![i] = f]
  PROVE  /\ r \in Seq(Fetches) /\ Len(q) \in Nat /\ Len(r) = Len(q)
         /\ DOMAIN q = 1 .. Len(q) /\ DOMAIN r = 1 .. Len(q)
         /\ r[i] = f /\ \A j \in 1 .. Len(q) : j # i => r[j] = q[j]
  BY ExceptSeq, LenProperties

\* A request is made: another for lists is awaited, or the lists are as before.
LEMMA AskedLists ==
  ASSUME NEW q \in Seq(Fetches), Orderly(q), NEW f \in Fetches, ~f.served, f.what = "lists",
         NEW r, r = Append(q, f)
  PROVE  r \in Seq(Fetches) /\ Orderly(r) /\ Awaits(r)
<1>1. /\ r \in Seq(Fetches) /\ Len(q) \in Nat
      /\ DOMAIN q = 1 .. Len(q) /\ DOMAIN r = 1 .. Len(q) + 1
      /\ \A j \in 1 .. Len(q) : r[j] = q[j]
      /\ r[Len(q) + 1] = f
  BY Appended
<1> QED
  BY <1>1 DEF Orderly, Awaits

LEMMA AskedPanel ==
  ASSUME NEW q \in Seq(Fetches), Orderly(q), NEW f \in Fetches, ~f.served,
         f.what = "panel", f.of \in Calls, NEW r, r = Append(q, f)
  PROVE  /\ r \in Seq(Fetches) /\ Orderly(r) /\ Keeps(q, r)
         /\ NoLists(r) => NoLists(q)
         /\ Len(r) > 0 /\ r[Len(r)] = f
<1>1. /\ r \in Seq(Fetches) /\ Len(q) \in Nat /\ Len(r) = Len(q) + 1
      /\ DOMAIN q = 1 .. Len(q) /\ DOMAIN r = 1 .. Len(q) + 1
      /\ \A j \in 1 .. Len(q) : r[j] = q[j]
      /\ r[Len(q) + 1] = f
  BY Appended
<1>2. Orderly(r)
  BY <1>1 DEF Orderly
<1>3. NoLists(r) => NoLists(q)
  BY <1>1 DEF NoLists
<1>4. Awaits(q) => Awaits(r)
  BY <1>1 DEF Awaits
<1>5. ASSUME NEW i \in DOMAIN r, LastLists(r, i)
      PROVE  \E j \in DOMAIN q : LastLists(q, j) /\ q[j].lists = r[i].lists
  <2>1. i \in DOMAIN q /\ q[i] = r[i]
    BY <1>1, <1>5 DEF LastLists
  <2>2. LastLists(q, i)
    BY <1>1, <1>5, <2>1 DEF LastLists
  <2> QED
    BY <2>1, <2>2
<1> QED
  BY <1>1, <1>2, <1>3, <1>4, <1>5 DEF Keeps

\* The oldest request that waits is answered.
LEMMA ServedLists ==
  ASSUME NEW q \in Seq(Fetches), Orderly(q),
         NEW i \in DOMAIN q, q[i].what = "lists", ~q[i].served,
         NEW f \in Fetches, f.what = "lists", f.served,
         \A j \in DOMAIN q : ~q[j].served => i <= j,
         NEW r, r = [q EXCEPT ![i] = f]
  PROVE  /\ r \in Seq(Fetches) /\ Orderly(r)
         /\ i \in DOMAIN r /\ r[i] = f
         /\ ~Awaits(r) => LastLists(r, i)
<1>1. /\ r \in Seq(Fetches) /\ Len(q) \in Nat
      /\ DOMAIN q = 1 .. Len(q) /\ DOMAIN r = 1 .. Len(q)
      /\ r[i] = f /\ \A j \in 1 .. Len(q) : j # i => r[j] = q[j]
  BY Replaced
<1>2. Orderly(r)
  BY <1>1 DEF Orderly
<1>3. ASSUME ~Awaits(r) PROVE LastLists(r, i)
  <2>1. ASSUME NEW j \in DOMAIN r, r[j].what = "lists", ~(j <= i) PROVE FALSE
    <3>1. q[j] = r[j] /\ j \in DOMAIN q /\ i < j
      BY <1>1, <2>1
    <3>2. q[j].served
      BY <1>3, <2>1, <3>1 DEF Awaits
    <3> QED
      BY <3>1, <3>2 DEF Orderly
  <2> QED
    BY <1>1, <2>1 DEF LastLists
<1> QED
  BY <1>1, <1>2, <1>3

LEMMA ServedPanel ==
  ASSUME NEW q \in Seq(Fetches), Orderly(q),
         NEW i \in DOMAIN q, q[i].what = "panel", ~q[i].served,
         NEW f \in Fetches, f.what = "panel", f.of \in Calls, f.served,
         \A j \in DOMAIN q : ~q[j].served => i <= j,
         NEW r, r = [q EXCEPT ![i] = f]
  PROVE  /\ r \in Seq(Fetches) /\ Orderly(r) /\ Keeps(q, r)
         /\ NoLists(r) => NoLists(q)
<1>1. /\ r \in Seq(Fetches) /\ Len(q) \in Nat /\ Len(r) = Len(q)
      /\ DOMAIN q = 1 .. Len(q) /\ DOMAIN r = 1 .. Len(q)
      /\ r[i] = f /\ \A j \in 1 .. Len(q) : j # i => r[j] = q[j]
  BY Replaced
<1>2. Orderly(r)
  BY <1>1 DEF Orderly
<1>3. NoLists(r) => NoLists(q)
  BY <1>1 DEF NoLists
<1>4. Awaits(q) => Awaits(r)
  BY <1>1 DEF Awaits
<1>5. ASSUME NEW k \in DOMAIN r, LastLists(r, k)
      PROVE  \E j \in DOMAIN q : LastLists(q, j) /\ q[j].lists = r[k].lists
  <2>1. k \in DOMAIN q /\ q[k] = r[k]
    BY <1>1, <1>5 DEF LastLists
  <2>2. LastLists(q, k)
    BY <1>1, <1>5, <2>1 DEF LastLists
  <2> QED
    BY <2>1, <2>2
<1> QED
  BY <1>1, <1>2, <1>3, <1>4, <1>5 DEF Keeps

\* A request is taken out, because its answer arrived or it was refused.
LEMMA RemovedOrderly ==
  ASSUME NEW q \in Seq(Fetches), Orderly(q), NEW i \in DOMAIN q, NEW r, r = RemoveAt(q, i)
  PROVE  Orderly(r)
<1>1. /\ Len(q) \in Nat \ {0} /\ DOMAIN q = 1 .. Len(q) /\ DOMAIN r = 1 .. Len(q) - 1
      /\ \A j \in 1 .. Len(q) - 1 : r[j] = IF j < i THEN q[j] ELSE q[j + 1]
  BY Removed
<1>2. ASSUME NEW j \in DOMAIN r, NEW k \in DOMAIN r, j < k, r[k].served PROVE r[j].served
  <2> DEFINE at(x) == IF x < i THEN x ELSE x + 1
  <2>1. at(j) \in DOMAIN q /\ at(k) \in DOMAIN q /\ at(j) < at(k)
    BY <1>1, <1>2
  <2>2. r[j] = q[at(j)] /\ r[k] = q[at(k)]
    BY <1>1
  <2> HIDE DEF at
  <2> QED
    BY <1>2, <2>1, <2>2 DEF Orderly
<1>3. ASSUME NEW j \in DOMAIN r, r[j].what = "panel" PROVE r[j].of \in Calls
  BY <1>1, <1>3 DEF Orderly
<1> QED
  BY <1>2, <1>3 DEF Orderly

\* What is left of a request that is taken out, other than the last for lists.
LEMMA RemovedKeeps ==
  ASSUME NEW q \in Seq(Fetches), NEW i \in DOMAIN q, NEW r, r = RemoveAt(q, i),
         q[i].what = "panel" \/ (q[i].what = "lists" /\ q[i].served /\ i = 1)
  PROVE  /\ Keeps(q, r)
         /\ NoLists(r) => NoLists(q) \/ LastLists(q, i)
<1> DEFINE at(x) == IF x < i THEN x ELSE x + 1
           from(x) == IF x < i THEN x ELSE x - 1
<1>1. /\ Len(q) \in Nat \ {0} /\ DOMAIN q = 1 .. Len(q) /\ DOMAIN r = 1 .. Len(q) - 1
      /\ \A j \in 1 .. Len(q) - 1 : r[j] = IF j < i THEN q[j] ELSE q[j + 1]
  BY Removed
<1>2. \A j \in DOMAIN r : at(j) \in DOMAIN q /\ r[j] = q[at(j)] /\ from(at(j)) = j
  BY <1>1
<1>3. \A j \in DOMAIN q : j # i => from(j) \in DOMAIN r /\ r[from(j)] = q[j] /\ at(from(j)) = j
  BY <1>1
<1>4. \A j, k \in DOMAIN r : j <= k => at(j) <= at(k)
  BY <1>1
<1>5. \A j \in DOMAIN r : i = 1 => i <= at(j)
  BY <1>1
<1> HIDE DEF at, from
<1>6. ASSUME NEW k \in DOMAIN r, LastLists(r, k)
      PROVE  \E j \in DOMAIN q : LastLists(q, j) /\ q[j].lists = r[k].lists
  <2>1. at(k) \in DOMAIN q /\ q[at(k)] = r[k] /\ q[at(k)].what = "lists"
    BY <1>2, <1>6 DEF LastLists
  <2>2. ASSUME NEW j \in DOMAIN q, q[j].what = "lists" PROVE j <= at(k)
    <3>1. CASE j = i
      BY <1>5, <2>2, <3>1
    <3>2. CASE j # i
      <4>1. from(j) \in DOMAIN r /\ r[from(j)].what = "lists" /\ at(from(j)) = j
        BY <1>3, <2>2, <3>2
      <4>2. from(j) <= k
        BY <1>6, <4>1 DEF LastLists
      <4> QED
        BY <1>4, <4>1, <4>2
    <3> QED
      BY <3>1, <3>2
  <2> QED
    BY <2>1, <2>2 DEF LastLists
<1>7. Awaits(q) => Awaits(r)
  BY <1>3 DEF Awaits
<1>8. ASSUME NoLists(r), ~NoLists(q) PROVE LastLists(q, i)
  <2>1. \A j \in DOMAIN q : j # i => q[j].what # "lists"
    BY <1>3, <1>8 DEF NoLists
  <2>2. q[i].what = "lists"
    BY <1>8, <2>1 DEF NoLists
  <2> QED
    BY <1>1, <2>1, <2>2 DEF LastLists
<1> QED
  BY <1>6, <1>7, <1>8 DEF Keeps

-----------------------------------------------------------------------------
(* The desk. *)

\* A step of the desk that moves c, and then has a for it (NoAgent for nobody).
Moves(c, a) ==
    \/ Desk!CreateConversation(c, "chat", TRUE) /\ a = NoAgent
    \/ a \in Agents /\ (Desk!Assign(c, a) \/ Desk!Claim(c, a))
    \/ Desk!WrapUp(c) /\ a = assignee[c]

LEMMA MovesOne ==
  ASSUME Desk!TypeOK, Desk!SessionIsVoice, Desk!AssignedIffWorked,
         NEW c \in Calls, NEW a, Moves(c, a)
  PROVE  /\ \A x \in Calls : x # c => status'[x] = status[x] /\ assignee'[x] = assignee[x]
         /\ assignee'[c] = a
<1> USE DEF Desk!TypeOK, Desk!SessionIsVoice, Desk!AssignedIffWorked
<1> DEFINE Goal == /\ \A x \in Calls : x # c =>
                          status'[x] = status[x] /\ assignee'[x] = assignee[x]
                   /\ assignee'[c] = a
<1>1. CASE Desk!CreateConversation(c, "chat", TRUE) /\ a = NoAgent
  BY <1>1 DEF Desk!CreateConversation, Desk!Enqueue
<1>2. CASE a \in Agents /\ Desk!Assign(c, a)
  BY <1>2 DEF Desk!Assign
<1>3. CASE a \in Agents /\ Desk!Claim(c, a)
  BY <1>3 DEF Desk!Claim
<1>4. CASE Desk!WrapUp(c) /\ a = assignee[c]
  BY <1>4 DEF Desk!WrapUp
<1> QED
  BY <1>1, <1>2, <1>3, <1>4 DEF Moves

LEMMA MovesKeepDesk ==
  ASSUME FloorAssumption, Desk!TypeOK, Desk!SessionIsVoice, Desk!AssignedIffWorked,
         NEW c \in Calls, NEW a, Moves(c, a)
  PROVE  Desk!TypeOK' /\ Desk!SessionIsVoice' /\ Desk!AssignedIffWorked'
<1> USE FloorAssumption
    DEF FloorAssumption, Desk!TypeOK, Desk!SessionIsVoice, Desk!AssignedIffWorked,
        Desk!AgentStatus, Desk!lineVars, Desk!presenceVars
<1> DEFINE Goal == Desk!TypeOK' /\ Desk!SessionIsVoice' /\ Desk!AssignedIffWorked'
<1>1. CASE Desk!CreateConversation(c, "chat", TRUE)
  BY <1>1 DEF Desk!CreateConversation, Desk!Enqueue
<1>2. CASE a \in Agents /\ Desk!Assign(c, a)
  BY <1>2 DEF Desk!Assign, Desk!Occupy
<1>3. CASE a \in Agents /\ Desk!Claim(c, a)
  BY <1>3 DEF Desk!Claim, Desk!Occupy
<1>4. CASE Desk!WrapUp(c)
  BY <1>4 DEF Desk!WrapUp
<1> QED
  BY <1>1, <1>2, <1>3, <1>4 DEF Moves

\* Whoever has the conversation that was moved, or written in, will hear of it.
LEMMA AudienceHears ==
  ASSUME FloorAssumption, TypeOK, PagesAreOrderly, NEW a \in Agents \cup {NoAgent}, Publish(a),
         NEW p \in Pages, WillRead(p) => WillRead(p)',
         owner[p] \in Supervisors \cup {a}
  PROVE  WillHear(p)'
<1>1. p \in Tabs /\ p \in Audience(a)
  BY FloorAssumption DEF FloorAssumption, TypeOK, Audience, Users
<1>2. CASE p \in hub
  BY <1>1, <1>2 DEF Publish, WillHear, TypeOK
<1>3. CASE p \notin hub
  BY <1>1, <1>3 DEF Publish, WillHear, PagesAreOrderly
<1> QED
  BY <1>2, <1>3

-----------------------------------------------------------------------------
(* What comes to one page. *)

ListsComing(p) ==
    owner[p] # NoUser /\ ~WillHear(p) =>
        /\ \A i \in DOMAIN fetches[p] :
              LastLists(fetches[p], i) => Shows(fetches[p][i].lists, p)
        /\ NoLists(fetches[p]) => Shows(screen[p], p)

PanelComing(p) ==
    \A c \in Calls :
      p \notin astray /\ selected[p] = c /\ owner[p] = assignee[c] /\ ~WillHear(p) =>
        LET n == Len(fetches[p])
        IN \/ ~NoLists(fetches[p])
           \/ /\ n > 0 /\ fetches[p][n].what = "panel" /\ fetches[p][n].of = c
              /\ fetches[p][n].served => fetches[p][n].count = said[c]
           \/ n = 0 /\ panel[p] = [of |-> c, count |-> said[c]]

LEMMA ComingIsComing ==
  /\ ListsAreComing <=> \A p \in Pages : ListsComing(p)
  /\ PanelIsComing <=> \A p \in Pages : PanelComing(p)
<1>1. \A p \in Pages : \A i \in DOMAIN fetches[p] :
        LastLists(fetches[p], i) <=>
            IsLists(p, i) /\ (\A j \in DOMAIN fetches[p] : IsLists(p, j) => j <= i)
  BY DEF LastLists, IsLists
<1>2. \A p \in Pages : NoLists(fetches[p]) <=> \A i \in DOMAIN fetches[p] : ~IsLists(p, i)
  BY DEF NoLists, IsLists
<1>3. ListsAreComing <=> \A p \in Pages : ListsComing(p)
  BY <1>1, <1>2, Zenon DEF ListsAreComing, ListsComing
<1>4. PanelIsComing <=> \A p \in Pages : PanelComing(p)
  BY <1>2 DEF PanelIsComing, PanelComing
<1> QED
  BY <1>3, <1>4

LEMMA WillReadAwaits == ASSUME NEW p \in Pages PROVE WillRead(p) <=> Awaits(fetches[p])
  BY DEF WillRead, Unserved, Awaits

\* Nothing is claimed of a page that will hear more.
LEMMA HearingPage ==
  ASSUME NEW p \in Pages, WillHear(p)
  PROVE  ListsComing(p) /\ PanelComing(p)
  BY DEF ListsComing, PanelComing

\* p's page is as it was.
Untouched(p) ==
    /\ owner'[p] = owner[p] /\ fetches'[p] = fetches[p] /\ screen'[p] = screen[p]
    /\ selected'[p] = selected[p] /\ panel'[p] = panel[p]
    /\ p \in astray => p \in astray'

\* A page that is as it was, of a user whose conversations are as they were.
LEMMA UntouchedPage ==
  ASSUME NEW p \in Pages, ListsComing(p), PanelComing(p), Untouched(p),
         WillHear(p) => WillHear(p)',
         \A c \in Calls : owner[p] \in Supervisors \cup {assignee'[c]} =>
             status'[c] = status[c] /\ assignee'[c] = assignee[c] /\ said'[c] = said[c]
  PROVE  ListsComing(p)' /\ PanelComing(p)'
<1> USE DEF Untouched
<1>1. ASSUME NEW l, Shows(l, p) PROVE Shows(l, p)'
  BY <1>1 DEF Shows
<1>2. ListsComing(p)'
  BY <1>1 DEF ListsComing
<1>3. PanelComing(p)'
  BY DEF PanelComing
<1> QED
  BY <1>2, <1>3

\* A conversation is moved, or written in, and that is published.
LEMMA PublishedPage ==
  ASSUME FloorAssumption, TypeOK, PagesAreOrderly,
         NEW c \in Calls, NEW a \in Agents \cup {NoAgent}, Publish(a), assignee'[c] = a,
         \A x \in Calls : x # c =>
             status'[x] = status[x] /\ assignee'[x] = assignee[x] /\ said'[x] = said[x],
         NEW p \in Pages, ListsComing(p), PanelComing(p),
         Untouched(p) \/ Awaits(fetches'[p])
  PROVE  ListsComing(p)' /\ PanelComing(p)'
<1> DEFINE Goal == ListsComing(p)' /\ PanelComing(p)'
<1>1. WillRead(p) <=> Awaits(fetches[p])
  BY WillReadAwaits
<1>2. WillRead(p)' <=> Awaits(fetches'[p])
  BY DEF WillRead, Unserved, Awaits
<1>3. CASE WillHear(p)'
  BY <1>3 DEF ListsComing, PanelComing
<1>4. CASE Awaits(fetches'[p])
  BY <1>2, <1>3, <1>4 DEF WillHear
<1>5. CASE owner[p] \in Supervisors \cup {a} /\ (WillRead(p) => WillRead(p)')
  <2>1. WillHear(p)'
    BY <1>5, AudienceHears
  <2> QED
    BY <1>3, <2>1
<1>6. CASE owner[p] \notin Supervisors \cup {a} /\ Untouched(p)
  <2>1. WillRead(p) => WillRead(p)'
    BY <1>1, <1>2, <1>6 DEF Untouched
  <2>2. WillHear(p) => WillHear(p)'
    BY <2>1 DEF WillHear, Publish, TypeOK
  <2>3. ASSUME NEW x \in Calls, owner[p] \in Supervisors \cup {assignee'[x]}
        PROVE status'[x] = status[x] /\ assignee'[x] = assignee[x] /\ said'[x] = said[x]
    BY <1>6, <2>3
  <2> QED
    BY <1>6, <2>2, <2>3, UntouchedPage
<1> QED
  BY <1>1, <1>2, <1>4, <1>5, <1>6 DEF Untouched

-----------------------------------------------------------------------------
(* The page's own steps. *)

\* A set of naturals that is not empty has its least.
LEMMA LeastNatural ==
  ASSUME NEW S, S \subseteq Nat, S # {}
  PROVE  Min(S) \in S /\ \A y \in S : Min(S) <= y
<1> DEFINE R == OpToRel(<, Nat)
<1>1. IsWellFoundedOn(R, Nat)
  BY NatLessThanWellFounded
<1>2. \A x, y \in Nat : x < y => <<x, y>> \in R
  BY DEF OpToRel
<1> HIDE DEF R
<1>3. PICK x \in S : \A y \in S : ~(<<y, x>> \in R)
  BY <1>1, WFMin, Zenon
<1>4. ASSUME NEW y \in S PROVE x <= y
  <2>1. x \in Nat /\ y \in Nat
    OBVIOUS
  <2>2. ~(y < x)
    BY <1>2, <1>3, <2>1, Zenon
  <2> QED
    BY <2>1, <2>2
<1> QED
  BY <1>3, <1>4, Zenon DEF Min

LEMMA OldestWaits ==
  ASSUME TypeOK, NEW p \in Pages, Unserved(p) # {}
  PROVE  LET i == Min(Unserved(p))
             q == fetches[p]
         IN /\ i \in DOMAIN q /\ ~q[i].served
            /\ \A j \in DOMAIN q : ~q[j].served => i <= j
<1> DEFINE U == Unserved(p)
<1>1. fetches[p] \in Seq(Fetches)
  BY DEF TypeOK
<1>2. U \subseteq Nat /\ U # {}
  BY <1>1, LenProperties DEF Unserved
<1>3. Min(U) \in U /\ \A y \in U : Min(U) <= y
  <2> HIDE DEF U
  <2> QED
    BY <1>2, LeastNatural
<1> QED
  BY <1>3 DEF Unserved

LEMMA Requests ==
  ASSUME FloorAssumption
  PROVE  /\ Nothing \in Screens
         /\ AskLists \in Fetches /\ AskLists.what = "lists" /\ ~AskLists.served
         /\ \A c \in Calls : /\ AskPanel(c) \in Fetches /\ AskPanel(c).what = "panel"
                            /\ AskPanel(c).of = c /\ ~AskPanel(c).served
<1>1. Nothing \in Screens
  BY DEF Nothing, Screens, Statuses
<1> QED
  BY <1>1 DEF AskLists, AskPanel, Fetch, Fetches

\* What an answer with lists says is how p's user has it.
LEMMA ListsShow ==
  ASSUME TypeOK, NEW p \in Pages
  PROVE  ListsOf(owner[p]) \in Screens /\ Shows(ListsOf(owner[p]), p)
<1>1. \A c \in Calls : status[c] \in Statuses
  BY DEF TypeOK, Desk!TypeOK, Statuses
<1>2. ListsOf(owner[p]) \in Screens
  BY <1>1 DEF ListsOf, Screens, Statuses
<1>3. Shows(ListsOf(owner[p]), p)
  BY DEF ListsOf, Shows
<1> QED
  BY <1>2, <1>3

\* The answer with lists is current; the one with messages has them all, or
\* belongs to no agent's selection.
LEMMA ServePage ==
  ASSUME FloorAssumption, TypeOK, PagesAreOrderly, NEW p \in Pages, Serve(p),
         ListsComing(p), PanelComing(p)
  PROVE  /\ fetches'[p] \in Seq(Fetches) /\ Orderly(fetches'[p])
         /\ ListsComing(p)' /\ PanelComing(p)'
<1>0. SUFFICES ASSUME NEW q, q = fetches[p], NEW r, r = fetches'[p],
                      NEW i, i = Min(Unserved(p))
               PROVE  /\ r \in Seq(Fetches) /\ Orderly(r)
                      /\ ListsComing(p)' /\ PanelComing(p)'
  OBVIOUS
<1>1. q \in Seq(Fetches) /\ Orderly(q) /\ (owner[p] = NoUser => q = <<>>)
  BY <1>0 DEF TypeOK, PagesAreOrderly, Orderly
<1>2. i \in DOMAIN q /\ ~q[i].served /\ \A j \in DOMAIN q : ~q[j].served => i <= j
  BY <1>0, OldestWaits DEF Serve
<1>3. /\ UNCHANGED <<said, owner, ring, screen, selected, panel, astray, status, assignee>>
      /\ \A l : Shows(l, p) => Shows(l, p)'
  BY DEF Serve, deskVars, Shows
<1>4. WillRead(p) <=> Awaits(q)
  BY <1>0, WillReadAwaits
<1>5. WillRead(p)' <=> Awaits(r)
  BY <1>0 DEF WillRead, Unserved, Awaits
<1>6. q[i].what = "lists" \/ q[i].what = "panel"
  <2>1. i \in 1 .. Len(q)
    BY <1>1, <1>2, LenProperties
  <2>2. q[i] \in Fetches
    BY <1>1, <2>1, ElementOfSeq
  <2> QED
    BY <2>2 DEF Fetches
<1>10. Len(q) \in Nat \ {0} /\ DOMAIN q = 1 .. Len(q)
  BY <1>1, <1>2, LenProperties
<1>11. ASSUME NEW c \in Calls, p \notin astray, selected[p] = c, owner[p] = assignee[c],
              ~WillHear(p), NoLists(q)
       PROVE  LET n == Len(q)
              IN /\ q[n].what = "panel" /\ q[n].of = c
                 /\ q[n].served => q[n].count = said[c]
  BY <1>0, <1>10, <1>11 DEF PanelComing
<1>7. CASE q[i].what = "lists"
  <2> DEFINE f == Fetch("lists", NoCall, TRUE, ListsOf(owner[p]), 0)
  <2>1. r = [q EXCEPT ![i] = f]
    BY <1>0, <1>7 DEF Serve, TypeOK
  <2>2. f \in Fetches /\ f.what = "lists" /\ f.served /\ f.lists = ListsOf(owner[p])
    BY ListsShow DEF Fetch, Fetches
  <2> HIDE DEF f
  <2>3. /\ r \in Seq(Fetches) /\ Orderly(r) /\ i \in DOMAIN r /\ r[i] = f
        /\ ~Awaits(r) => LastLists(r, i)
    BY <1>1, <1>2, <1>7, <2>1, <2>2, ServedLists
  <2>4. r[i].what = "lists" /\ ~NoLists(r)
    BY <2>2, <2>3 DEF NoLists
  <2>5. ListsComing(p)'
    <3>1. ASSUME ~WillHear(p)', NEW j \in DOMAIN r, LastLists(r, j) PROVE Shows(r[j].lists, p)'
      <4>1. LastLists(r, i)
        BY <1>5, <2>3, <3>1 DEF WillHear
      <4>2. j = i
        BY <2>3, <3>1, <4>1, LenProperties DEF LastLists
      <4> QED
        BY <1>3, <2>2, <2>3, <4>2, ListsShow
    <3> QED
      BY <1>0, <2>4, <3>1 DEF ListsComing
  <2>6. PanelComing(p)'
    BY <1>0, <2>4 DEF PanelComing
  <2> QED
    BY <2>3, <2>5, <2>6
<1>8. CASE q[i].what = "panel" /\ assignee[q[i].of] # owner[p]
  <2>1. r = RemoveAt(q, i) /\ missed' = missed
    BY <1>0, <1>8 DEF Serve, TypeOK
  <2>2. r \in Seq(Fetches) /\ Orderly(r)
    BY <1>1, <1>2, <2>1, Removed, RemovedOrderly
  <2>3. Keeps(q, r) /\ (NoLists(r) => NoLists(q))
    BY <1>1, <1>2, <1>8, <2>1, RemovedKeeps DEF LastLists
  <2>4. WillHear(p) => WillHear(p)'
    BY <1>3, <1>4, <1>5, <2>1, <2>3 DEF WillHear, Keeps
  <2>5. ListsComing(p)'
    BY <1>0, <1>3, <2>3, <2>4 DEF ListsComing, Keeps
  <2>6. ASSUME NEW c \in Calls, p \notin astray, selected[p] = c, owner[p] = assignee[c],
              ~WillHear(p)', NoLists(r)
        PROVE  LET n == Len(r)
               IN /\ n > 0 /\ r[n].what = "panel" /\ r[n].of = c
                  /\ r[n].served => r[n].count = said[c]
    <3>1. /\ Len(q) \in Nat \ {0} /\ Len(r) = Len(q) - 1
          /\ DOMAIN q = 1 .. Len(q) /\ DOMAIN r = 1 .. Len(q) - 1
          /\ \A j \in 1 .. Len(q) - 1 : r[j] = IF j < i THEN q[j] ELSE q[j + 1]
      BY <1>1, <1>2, <2>1, Removed
    <3>2. LET n == Len(q)
          IN /\ q[n].what = "panel" /\ q[n].of = c
             /\ q[n].served => q[n].count = said[c]
      BY <1>11, <2>3, <2>4, <2>6
    <3>3. i # Len(q)
      BY <1>8, <2>6, <3>2
    <3>4. Len(r) > 0 /\ Len(r) \in 1 .. Len(q) - 1 /\ r[Len(r)] = q[Len(q)]
      BY <1>2, <3>1, <3>3
    <3> QED
      BY <3>2, <3>4
  <2>7. PanelComing(p)'
    BY <1>0, <1>3, <2>6 DEF PanelComing
  <2> QED
    BY <2>2, <2>5, <2>7
<1>9. CASE q[i].what = "panel" /\ assignee[q[i].of] = owner[p]
  <2> DEFINE f == Fetch("panel", q[i].of, TRUE, Nothing, said[q[i].of])
  <2>1. r = [q EXCEPT ![i] = f] /\ missed' = missed
    BY <1>0, <1>9 DEF Serve, TypeOK
  <2>2. q[i].of \in Calls
    BY <1>1, <1>2, <1>9 DEF Orderly
  <2>3. f \in Fetches /\ f.what = "panel" /\ f.served /\ f.of = q[i].of /\ f.count = said[q[i].of]
    BY <2>2, Requests DEF Fetch, Fetches, TypeOK
  <2> HIDE DEF f
  <2>4. /\ r \in Seq(Fetches) /\ Orderly(r) /\ Keeps(q, r)
        /\ NoLists(r) => NoLists(q)
        /\ Len(r) = Len(q) /\ DOMAIN r = DOMAIN q
        /\ r[i] = f /\ \A j \in DOMAIN q : j # i => r[j] = q[j]
    <3>1. q[i].what = "panel" /\ r = [q EXCEPT ![i] = f]
      BY <1>9, <2>1
    <3>2. f \in Fetches /\ f.what = "panel" /\ f.of \in Calls /\ f.served
      BY <2>2, <2>3
    <3>3. /\ r \in Seq(Fetches) /\ Orderly(r) /\ Keeps(q, r)
          /\ NoLists(r) => NoLists(q)
      BY <1>1, <1>2, <3>1, <3>2, ServedPanel
    <3>4. /\ DOMAIN q = 1 .. Len(q) /\ DOMAIN r = 1 .. Len(q) /\ Len(r) = Len(q)
          /\ r[i] = f /\ \A j \in 1 .. Len(q) : j # i => r[j] = q[j]
      BY <1>1, <1>2, <3>1, <3>2, Replaced
    <3> QED
      BY <3>3, <3>4
  <2>5. WillHear(p) => WillHear(p)'
    BY <1>3, <1>4, <1>5, <2>1, <2>4 DEF WillHear, Keeps
  <2>6. ListsComing(p)'
    BY <1>0, <1>3, <2>4, <2>5 DEF ListsComing, Keeps
  <2>7. ASSUME NEW c \in Calls, p \notin astray, selected[p] = c, owner[p] = assignee[c],
              ~WillHear(p)', NoLists(r)
        PROVE  LET n == Len(r)
               IN /\ n > 0 /\ r[n].what = "panel" /\ r[n].of = c
                  /\ r[n].served => r[n].count = said[c]
    <3>1. NoLists(q) /\ ~WillHear(p)
      BY <2>4, <2>5, <2>7
    <3>2. LET n == Len(q)
          IN /\ q[n].what = "panel" /\ q[n].of = c
             /\ q[n].served => q[n].count = said[c]
      BY <1>11, <2>7, <3>1
    <3>3. Len(q) > 0 /\ Len(q) \in DOMAIN q
      BY <1>10
    <3> QED
      BY <2>3, <2>4, <3>2, <3>3
  <2>8. PanelComing(p)'
    BY <1>0, <1>3, <2>7 DEF PanelComing
  <2> QED
    BY <2>4, <2>6, <2>8
<1> QED
  BY <1>6, <1>7, <1>8, <1>9

LEMMA KeepsFurther ==
  ASSUME NEW q, NEW r, NEW u, Keeps(q, r), Keeps(r, u)
  PROVE  Keeps(q, u)
<1>1. ASSUME NEW i \in DOMAIN u, LastLists(u, i)
      PROVE  \E j \in DOMAIN q : LastLists(q, j) /\ q[j].lists = u[i].lists
  <2>1. PICK k \in DOMAIN r : LastLists(r, k) /\ r[k].lists = u[i].lists
    BY <1>1 DEF Keeps
  <2> QED
    BY <2>1 DEF Keeps
<1> QED
  BY <1>1 DEF Keeps

\* A user that has a conversation is an agent, and the conversation is worked on.
LEMMA OwnedIsWorked ==
  ASSUME FloorAssumption, TypeOK, Desk!AssignedIffWorked,
         NEW p \in Pages, NEW c \in Calls, owner[p] = assignee[c]
  PROVE  owner[p] # NoUser /\ status[c] \notin {"none", "queued"} /\ c # NoCall
<1>1. owner[p] \in Users \cup {NoUser} /\ assignee[c] \in Agents \cup {NoAgent}
  BY FloorAssumption DEF FloorAssumption, TypeOK, Desk!TypeOK
<1>2. owner[p] # NoUser /\ assignee[c] # NoAgent
  BY <1>1, FloorAssumption DEF FloorAssumption, Users
<1> QED
  BY <1>2, FloorAssumption DEF Desk!AssignedIffWorked, FloorAssumption

\* What is asked for after an answer arrived, and what of it is kept.
LEMMA ArrivesOrderly ==
  ASSUME FloorAssumption, TypeOK, NEW p \in Pages, Orderly(fetches[p]),
         NEW i, Arrive(p, i)
  PROVE  /\ fetches'[p] \in Seq(Fetches) /\ Orderly(fetches'[p])
         /\ i = 1 => /\ Keeps(fetches[p], fetches'[p])
                     /\ NoLists(fetches'[p]) => NoLists(fetches[p]) \/ LastLists(fetches[p], i)
<1>0. SUFFICES ASSUME NEW q, q = fetches[p], NEW u, u = fetches'[p], NEW r, r = RemoveAt(q, i)
               PROVE  /\ u \in Seq(Fetches) /\ Orderly(u)
                      /\ i = 1 => /\ Keeps(q, u)
                                  /\ NoLists(u) => NoLists(q) \/ LastLists(q, i)
  OBVIOUS
<1>1. q \in Seq(Fetches) /\ Orderly(q) /\ i \in DOMAIN q /\ q[i].served
  BY <1>0 DEF TypeOK, Arrive
<1>2. q[i].what = "lists" \/ q[i].what = "panel"
  <2>1. i \in 1 .. Len(q)
    BY <1>1, LenProperties
  <2>2. q[i] \in Fetches
    BY <1>1, <2>1, ElementOfSeq
  <2> QED
    BY <2>2 DEF Fetches
<1>3. r \in Seq(Fetches) /\ Orderly(r)
  BY <1>0, <1>1, Removed, RemovedOrderly
<1>4. i = 1 => Keeps(q, r) /\ (NoLists(r) => NoLists(q) \/ LastLists(q, i))
  <2> SUFFICES ASSUME i = 1
               PROVE  Keeps(q, r) /\ (NoLists(r) => NoLists(q) \/ LastLists(q, i))
    OBVIOUS
  <2>1. q[i].what = "panel" \/ (q[i].what = "lists" /\ q[i].served /\ i = 1)
    BY <1>1, <1>2
  <2> QED
    BY <1>0, <1>1, <2>1, RemovedKeeps
<1>5. CASE u = r
  BY <1>3, <1>4, <1>5
<1>6. CASE q[i].what = "lists" /\ IsOwn(q[i].lists, selected[p])
  <2> DEFINE f == AskPanel(selected[p])
  <2>1. u = Append(r, f)
    BY <1>0, <1>6 DEF Arrive, ListsArrive, TypeOK
  <2>2. selected[p] \in Calls
    BY <1>6 DEF IsOwn, TypeOK
  <2>3. f \in Fetches /\ ~f.served /\ f.what = "panel" /\ f.of \in Calls
    BY <2>2, Requests
  <2> HIDE DEF f
  <2>4. u \in Seq(Fetches) /\ Orderly(u) /\ Keeps(r, u) /\ (NoLists(u) => NoLists(r))
    BY <1>3, <2>1, <2>3, AskedPanel
  <2> QED
    BY <1>4, <2>4, KeepsFurther
<1>7. u = r \/ (q[i].what = "lists" /\ IsOwn(q[i].lists, selected[p]))
  BY <1>0 DEF Arrive, ListsArrive, PanelArrives, TypeOK
<1> QED
  BY <1>5, <1>6, <1>7

\* The first answer shows what it says; a later one shows something older.
LEMMA ArrivePage ==
  ASSUME FloorAssumption, TypeOK, Desk!AssignedIffWorked, NEW p \in Pages, Orderly(fetches[p]),
         NEW i, Arrive(p, i), ListsComing(p), PanelComing(p)
  PROVE  ListsComing(p)' /\ PanelComing(p)'
<1>0. SUFFICES ASSUME NEW q, q = fetches[p], NEW u, u = fetches'[p]
               PROVE  ListsComing(p)' /\ PanelComing(p)'
  OBVIOUS
<1>1. q \in Seq(Fetches) /\ i \in DOMAIN q /\ q[i].served
  BY <1>0 DEF TypeOK, Arrive
<1>2. /\ UNCHANGED <<said, owner, ring, selected, status, assignee>>
      /\ \A l : Shows(l, p) <=> Shows(l, p)'
  BY DEF Arrive, deskVars, Shows
<1>3. (WillRead(p) <=> Awaits(q)) /\ (WillRead(p)' <=> Awaits(u))
  BY <1>0 DEF WillRead, Unserved, Awaits
<1>4. CASE i > 1
  <2>1. WillHear(p)'
    BY <1>4 DEF Arrive, WillHear
  <2> QED
    BY <2>1 DEF ListsComing, PanelComing
<1>5. CASE i = 1
  <2>1. Keeps(q, u) /\ (NoLists(u) => NoLists(q) \/ LastLists(q, i))
    BY <1>0, <1>5, ArrivesOrderly
  <2>2. WillHear(p) => WillHear(p)'
    BY <1>2, <1>3, <1>5, <2>1 DEF Arrive, WillHear, Keeps
  <2>3. CASE q[i].what = "lists"
    <3>1. screen'[p] = q[i].lists
      BY <1>0, <2>3 DEF Arrive, ListsArrive, TypeOK
    <3>2. NoLists(u) => LastLists(q, i)
      BY <1>1, <2>1, <2>3 DEF NoLists
    <3>3. ListsComing(p)'
      BY <1>0, <1>1, <1>2, <2>1, <2>2, <3>1, <3>2 DEF ListsComing, Keeps
    <3>4. ASSUME NEW c \in Calls, selected[p] = c, owner[p] = assignee[c], ~WillHear(p)', NoLists(u)
          PROVE  LET n == Len(u)
                 IN n > 0 /\ u[n].what = "panel" /\ u[n].of = c /\ ~u[n].served
      <4>1. owner[p] # NoUser /\ status[c] \notin {"none", "queued"} /\ c # NoCall
        BY <3>4, OwnedIsWorked
      <4>2. Shows(q[i].lists, p)
        BY <1>0, <1>1, <2>2, <3>2, <3>4, <4>1 DEF ListsComing
      <4>3. IsOwn(q[i].lists, selected[p])
        BY <3>4, <4>1, <4>2 DEF Shows, IsOwn
      <4> DEFINE r == RemoveAt(q, i)
                 f == AskPanel(c)
      <4>4. u = Append(r, f)
        BY <1>0, <2>3, <3>4, <4>3 DEF Arrive, ListsArrive, TypeOK
      <4>5. r \in Seq(Fetches)
        BY <1>1, Removed
      <4>6. f \in Fetches /\ f.what = "panel" /\ f.of = c /\ ~f.served
        BY Requests
      <4> HIDE DEF r, f
      <4>7. Len(r) \in Nat /\ Len(u) = Len(r) + 1 /\ u[Len(r) + 1] = f
        BY <4>4, <4>5, <4>6, Appended
      <4> QED
        BY <4>6, <4>7
    <3>5. PanelComing(p)'
      BY <1>0, <1>2, <3>4 DEF PanelComing
    <3> QED
      BY <3>3, <3>5
  <2>4. CASE q[i].what # "lists"
    <3>1. u = RemoveAt(q, i) /\ screen' = screen /\ astray' = astray
          /\ panel'[p] = [of |-> q[i].of, count |-> q[i].count]
      BY <1>0, <2>4 DEF Arrive, PanelArrives, TypeOK
    <3>2. NoLists(u) => NoLists(q)
      BY <2>1, <2>4 DEF LastLists
    <3>3. ListsComing(p)'
      BY <1>0, <1>2, <2>1, <2>2, <3>1, <3>2 DEF ListsComing, Keeps
    <3>4. /\ Len(q) \in Nat \ {0} /\ Len(u) = Len(q) - 1
          /\ \A j \in 1 .. Len(q) - 1 : u[j] = q[j + 1]
      <4>1. u = RemoveAt(q, i)
        BY <3>1
      <4>2. /\ Len(q) \in Nat \ {0} /\ Len(u) = Len(q) - 1
            /\ \A j \in 1 .. Len(q) - 1 : u[j] = IF j < i THEN q[j] ELSE q[j + 1]
        BY <1>1, <4>1, Removed
      <4> QED
        BY <1>5, <4>2
    <3>5. ASSUME NEW c \in Calls, p \notin astray, selected[p] = c, owner[p] = assignee[c],
                 ~WillHear(p)', NoLists(u)
          PROVE  LET n == Len(u)
                 IN \/ /\ n > 0 /\ u[n].what = "panel" /\ u[n].of = c
                       /\ u[n].served => u[n].count = said[c]
                    \/ n = 0 /\ panel'[p] = [of |-> c, count |-> said[c]]
      <4>1. NoLists(q) /\ ~WillHear(p)
        BY <2>2, <3>2, <3>5
      <4>2. LET n == Len(q)
            IN /\ q[n].what = "panel" /\ q[n].of = c
               /\ q[n].served => q[n].count = said[c]
        BY <1>0, <3>4, <3>5, <4>1 DEF PanelComing
      <4>3. CASE Len(q) = 1
        <5>1. Len(u) = 0 /\ q[i].of = c /\ q[i].count = said[c]
          BY <1>1, <1>5, <3>4, <4>2, <4>3
        <5>2. panel'[p] = [of |-> c, count |-> said[c]]
          BY <3>1, <5>1
        <5> QED
          BY <5>1, <5>2
      <4>4. CASE Len(q) # 1
        <5>1. Len(u) \in 1 .. Len(q) - 1 /\ Len(u) > 0
          BY <3>4, <4>4
        <5>2. u[Len(u)] = q[Len(q)]
          BY <3>4, <5>1
        <5> QED
          BY <4>2, <5>1, <5>2
      <4> QED
        BY <4>3, <4>4
    <3>6. PanelComing(p)'
      BY <1>0, <1>2, <3>1, <3>5 DEF PanelComing
    <3> QED
      BY <3>3, <3>6
  <2> QED
    BY <2>3, <2>4
<1> QED
  <2>1. i \in Nat \ {0}
    BY <1>1, LenProperties
  <2> QED
    BY <1>4, <1>5, <2>1

-----------------------------------------------------------------------------
(* The invariant, in parts. *)

DeskIsRight == Desk!TypeOK /\ Desk!SessionIsVoice /\ Desk!AssignedIffWorked

PageTypes ==
    /\ fetches \in [Pages -> Seq(Fetches)] /\ screen \in [Pages -> Screens]
    /\ selected \in [Pages -> Calls \cup {NoCall}]
    /\ panel \in [Pages -> [of : Calls \cup {NoCall}, count : Nat]]
    /\ replies \in [Pages -> SUBSET Calls] /\ astray \subseteq Pages

HubIsRight ==
    /\ owner \in [Tabs -> Users \cup {NoUser}]
    /\ socket \in [Tabs -> {"none", "opening", "up", "lost"}]
    /\ hub \subseteq Tabs /\ missed \subseteq Pages /\ ring \in [Pages -> Nat]
    /\ hub = {t \in Tabs : socket[t] = "up"}
    /\ \A t \in Tabs : owner[t] = NoUser => socket[t] = "none"
    /\ \A p \in Pages : socket[p] # "up" => ring[p] = 0

PageIsRight(p) ==
    /\ owner[p] = NoUser => fetches[p] = <<>> /\ selected[p] = NoCall
    /\ Orderly(fetches[p])
    /\ ListsComing(p) /\ PanelComing(p)

LEMMA InParts ==
  IInv <=> /\ DeskIsRight /\ said \in [Calls -> Nat] /\ HubIsRight /\ PageTypes
           /\ \A p \in Pages : PageIsRight(p)
<1>1. TypeOK /\ Desk!SessionIsVoice /\ Desk!AssignedIffWorked /\ PagesAreOrderly
        <=> /\ DeskIsRight /\ said \in [Calls -> Nat] /\ HubIsRight /\ PageTypes
            /\ \A p \in Pages : /\ owner[p] = NoUser => fetches[p] = <<>> /\ selected[p] = NoCall
                               /\ Orderly(fetches[p])
  BY DEF TypeOK, PagesAreOrderly, DeskIsRight, HubIsRight, PageTypes, Orderly
<1> QED
  BY <1>1, ComingIsComing DEF IInv, PageIsRight

LEMMA PartsAgain ==
  ASSUME DeskIsRight', said' \in [Calls -> Nat], HubIsRight', PageTypes',
         \A p \in Pages : PageIsRight(p)'
  PROVE  IInv'
<1>1. IInv' <=> (/\ DeskIsRight /\ said \in [Calls -> Nat] /\ HubIsRight /\ PageTypes
                 /\ \A p \in Pages : PageIsRight(p))'
  BY InParts, PTL
<1> QED
  BY <1>1

LEMMA IInvParts ==
  ASSUME IInv
  PROVE  /\ TypeOK /\ PagesAreOrderly /\ Desk!AssignedIffWorked /\ DeskIsRight
         /\ HubIsRight /\ PageTypes /\ \A p \in Pages : PageIsRight(p)
  BY InParts DEF IInv

LEMMA InitIInv == ASSUME FloorAssumption, Init PROVE IInv
<1>1. DeskIsRight
  BY FloorAssumption DEF Init, Desk!Init, DeskIsRight, Desk!TypeOK, Desk!SessionIsVoice,
                         Desk!AssignedIffWorked, Desk!AgentStatus
<1>2. HubIsRight /\ said \in [Calls -> Nat]
  BY FloorAssumption DEF Init, HubIsRight
<1>3. PageTypes
  BY Requests DEF Init, PageTypes, NoPanel
<1>4. ASSUME NEW p \in Pages PROVE PageIsRight(p)
  <2>1. /\ fetches[p] = <<>> /\ selected[p] = NoCall /\ owner[p] = NoUser /\ DOMAIN <<>> = {}
        /\ NoCall \notin Calls
    BY FloorAssumption DEF Init, FloorAssumption
  <2> QED
    BY <2>1 DEF PageIsRight, Orderly, ListsComing, PanelComing
<1> QED
  BY <1>1, <1>2, <1>3, <1>4, InParts

\* A desk that is left alone stays right.
LEMMA DeskStays == ASSUME DeskIsRight, UNCHANGED deskVars PROVE DeskIsRight'
  BY DEF DeskIsRight, deskVars, Desk!TypeOK, Desk!SessionIsVoice, Desk!AssignedIffWorked

LEMMA PublishKeepsHub ==
  ASSUME FloorAssumption, HubIsRight, NEW a, Publish(a)
  PROVE  HubIsRight'
<1>1. ring' \in [Pages -> Nat] /\ missed' \subseteq Pages
  BY DEF Publish, HubIsRight
<1>2. \A p \in Pages : socket[p] # "up" => ring'[p] = 0
  BY FloorAssumption DEF Publish, HubIsRight, FloorAssumption
<1> QED
  BY <1>1, <1>2 DEF Publish, HubIsRight

\* A page asks for more.
LEMMA AskKeeps ==
  ASSUME FloorAssumption, PageTypes, NEW p \in Pages, Orderly(fetches[p]),
         NEW f, f = AskLists \/ \E c \in Calls : f = AskPanel(c), Ask(p, f)
  PROVE  /\ fetches' \in [Pages -> Seq(Fetches)] /\ Orderly(fetches'[p])
         /\ fetches'[p] = Append(fetches[p], f)
         /\ \A x \in Pages : x # p => fetches'[x] = fetches[x]
         /\ Awaits(fetches[p]) => Awaits(fetches'[p])
         /\ f = AskLists => Awaits(fetches'[p])
<1>1. f \in Fetches /\ ~f.served /\ (f.what = "lists" \/ (f.what = "panel" /\ f.of \in Calls))
  BY Requests
<1>2. fetches'[p] = Append(fetches[p], f) /\ \A x \in Pages : x # p => fetches'[x] = fetches[x]
  BY DEF Ask, PageTypes
<1>3. fetches[p] \in Seq(Fetches)
  BY DEF PageTypes
<1>4. CASE f.what = "lists"
  <2>1. fetches'[p] \in Seq(Fetches) /\ Orderly(fetches'[p]) /\ Awaits(fetches'[p])
    BY <1>1, <1>2, <1>3, <1>4, AskedLists
  <2> QED
    BY <1>2, <2>1 DEF Ask, PageTypes
<1>5. CASE f.what = "panel" /\ f.of \in Calls
  <2>1. fetches'[p] \in Seq(Fetches) /\ Orderly(fetches'[p]) /\ Keeps(fetches[p], fetches'[p])
    BY <1>1, <1>2, <1>3, <1>5, AskedPanel
  <2>2. f # AskLists
    BY <1>5, Requests
  <2> QED
    BY <1>2, <2>1, <2>2 DEF Ask, PageTypes, Keeps
<1> QED
  BY <1>1, <1>4, <1>5

-----------------------------------------------------------------------------
(* One step after another. *)

\* p asks for f, and selects and shows what it likes; the other pages do nothing.
OnlyAsks(p, f) ==
    /\ owner[p] # NoUser /\ Ask(p, f) /\ UNCHANGED <<owner, screen, replies, astray>>
    /\ selected' \in [Pages -> Calls \cup {NoCall}]
    /\ panel' \in [Pages -> [of : Calls \cup {NoCall}, count : Nat]]
    /\ \A x \in Pages : x # p => selected'[x] = selected[x] /\ panel'[x] = panel[x]

\* A conversation is moved or written in, and it is published to who then has it.
LEMMA PublishedStep ==
  ASSUME FloorAssumption, IInv, DeskIsRight', said' \in [Calls -> Nat],
         NEW c \in Calls, NEW a \in Agents \cup {NoAgent}, Publish(a), assignee'[c] = a,
         \A x \in Calls : x # c =>
             status'[x] = status[x] /\ assignee'[x] = assignee[x] /\ said'[x] = said[x],
         \/ UNCHANGED <<fetches, screen, selected, panel, astray>>
               /\ replies' \in [Pages -> SUBSET Calls]
         \/ \E p \in Pages : OnlyAsks(p, AskLists)
  PROVE  IInv'
<1>0. /\ TypeOK /\ PagesAreOrderly /\ HubIsRight /\ PageTypes
      /\ \A p \in Pages : PageIsRight(p)
  BY IInvParts
<1>1. HubIsRight'
  BY <1>0, PublishKeepsHub
<1>2. owner' = owner
  BY DEF Publish
<1>3. ASSUME NEW x \in Pages, Untouched(x) PROVE PageIsRight(x)'
  <2>1. ListsComing(x) /\ PanelComing(x)
    BY <1>0 DEF PageIsRight
  <2>2. ListsComing(x)' /\ PanelComing(x)'
    BY <1>0, <1>3, <2>1, PublishedPage
  <2> QED
    BY <1>0, <1>3, <2>2 DEF PageIsRight, Untouched
<1>4. CASE /\ UNCHANGED <<fetches, screen, selected, panel, astray>>
           /\ replies' \in [Pages -> SUBSET Calls]
  <2>1. \A x \in Pages : Untouched(x)
    BY <1>2, <1>4 DEF Untouched
  <2>2. PageTypes'
    BY <1>0, <1>4 DEF PageTypes
  <2> QED
    BY <1>1, <1>3, <2>1, <2>2, PartsAgain
<1>5. ASSUME NEW p \in Pages, OnlyAsks(p, AskLists) PROVE IInv'
  <2>1. /\ fetches' \in [Pages -> Seq(Fetches)] /\ Orderly(fetches'[p])
        /\ \A x \in Pages : x # p => fetches'[x] = fetches[x]
        /\ Awaits(fetches'[p])
    BY <1>0, <1>5, AskKeeps DEF OnlyAsks, PageIsRight
  <2>2. PageTypes'
    BY <1>0, <1>5, <2>1 DEF PageTypes, OnlyAsks
  <2>3. ASSUME NEW x \in Pages, x # p PROVE PageIsRight(x)'
    <3>1. Untouched(x)
      BY <1>5, <2>1, <2>3 DEF OnlyAsks, Untouched
    <3> QED
      BY <1>3, <3>1
  <2>4. PageIsRight(p)'
    <3>1. ListsComing(p) /\ PanelComing(p)
      BY <1>0 DEF PageIsRight
    <3>2. ListsComing(p)' /\ PanelComing(p)'
      BY <1>0, <2>1, <3>1, PublishedPage
    <3> QED
      BY <1>2, <1>5, <2>1, <3>2 DEF PageIsRight, OnlyAsks
  <2> QED
    BY <1>1, <2>2, <2>3, <2>4, PartsAgain
<1> QED
  BY <1>4, <1>5

\* A step that moves a conversation.
LEMMA MovingStep ==
  ASSUME FloorAssumption, IInv, NEW c \in Calls, NEW a, Moves(c, a), Publish(a),
         said' = said \/ said' = [said EXCEPT ![c] = 1],
         UNCHANGED pageVars \/ \E p \in Pages : OnlyAsks(p, AskLists)
  PROVE  IInv'
<1>1. DeskIsRight /\ said \in [Calls -> Nat] /\ replies \in [Pages -> SUBSET Calls]
  BY InParts DEF PageTypes
<1>2. a \in Agents \cup {NoAgent}
  BY <1>1 DEF Moves, DeskIsRight, Desk!TypeOK
<1>3. DeskIsRight'
  BY <1>1, MovesKeepDesk DEF DeskIsRight
<1>4. /\ assignee'[c] = a
      /\ \A x \in Calls : x # c => status'[x] = status[x] /\ assignee'[x] = assignee[x]
  BY <1>1, MovesOne DEF DeskIsRight
<1>5. said' \in [Calls -> Nat] /\ \A x \in Calls : x # c => said'[x] = said[x]
  BY <1>1
<1>6. \A x \in Calls : x # c =>
          status'[x] = status[x] /\ assignee'[x] = assignee[x] /\ said'[x] = said[x]
  BY <1>4, <1>5
<1>7. UNCHANGED pageVars => UNCHANGED <<fetches, screen, selected, panel, astray>>
                            /\ replies' \in [Pages -> SUBSET Calls]
  BY <1>1 DEF pageVars
<1> QED
  BY <1>2, <1>3, <1>4, <1>5, <1>6, <1>7, PublishedStep

\* A message.
LEMMA SayingStep ==
  ASSUME FloorAssumption, IInv, NEW c \in Calls, Say(c),
         UNCHANGED <<fetches, screen, selected, panel, astray>>,
         replies' \in [Pages -> SUBSET Calls]
  PROVE  IInv'
<1>1. DeskIsRight /\ said \in [Calls -> Nat]
  BY InParts
<1>2. DeskIsRight'
  BY <1>1, DeskStays DEF Say
<1>3. assignee[c] \in Agents \cup {NoAgent}
  BY <1>1 DEF DeskIsRight, Desk!TypeOK
<1>4. /\ Publish(assignee[c]) /\ assignee'[c] = assignee[c] /\ said' \in [Calls -> Nat]
      /\ \A x \in Calls : x # c =>
             status'[x] = status[x] /\ assignee'[x] = assignee[x] /\ said'[x] = said[x]
  BY <1>1 DEF Say, deskVars
<1> QED
  BY <1>2, <1>3, <1>4, PublishedStep

LEMMA AwaitingPage ==
  ASSUME NEW p \in Pages, Awaits(fetches'[p])
  PROVE  ListsComing(p)' /\ PanelComing(p)'
<1>1. WillHear(p)'
  BY DEF Awaits, WillHear, WillRead, Unserved
<1> QED
  BY <1>1 DEF ListsComing, PanelComing

\* A step that neither moves a conversation nor writes in one.
LEMMA QuietStep ==
  ASSUME FloorAssumption, IInv, UNCHANGED <<deskVars, said>>, HubIsRight', PageTypes',
         \A x \in Pages : PageIsRight(x)' \/ (Untouched(x) /\ (WillHear(x) => WillHear(x)'))
  PROVE  IInv'
<1>1. DeskIsRight /\ said \in [Calls -> Nat] /\ \A x \in Pages : PageIsRight(x)
  BY InParts
<1>2. DeskIsRight'
  BY <1>1, DeskStays
<1>3. ASSUME NEW x \in Pages PROVE PageIsRight(x)'
  <2>1. CASE Untouched(x) /\ (WillHear(x) => WillHear(x)')
    <3>1. ListsComing(x) /\ PanelComing(x)
      BY <1>1 DEF PageIsRight
    <3>2. \A c \in Calls : status'[c] = status[c] /\ assignee'[c] = assignee[c] /\ said'[c] = said[c]
      BY DEF deskVars
    <3>3. ListsComing(x)' /\ PanelComing(x)'
      BY <2>1, <3>1, <3>2, UntouchedPage
    <3> QED
      BY <1>1, <2>1, <3>3 DEF PageIsRight, Untouched
  <2> QED
    BY <2>1
<1> QED
  BY <1>1, <1>2, <1>3, PartsAgain

\* A page asks for its lists.
LEMMA ListingStep ==
  ASSUME FloorAssumption, IInv, HubIsRight',
         UNCHANGED <<deskVars, said, screen, selected, panel, replies, astray>>,
         NEW p \in Pages, Ask(p, AskLists), owner'[p] # NoUser,
         \A x \in Pages : x # p =>
             owner'[x] = owner[x] /\ ring'[x] = ring[x] /\ (x \in missed => x \in missed')
  PROVE  IInv'
<1>1. PageTypes /\ \A x \in Pages : PageIsRight(x)
  BY InParts
<1>2. /\ fetches' \in [Pages -> Seq(Fetches)] /\ Orderly(fetches'[p])
      /\ \A x \in Pages : x # p => fetches'[x] = fetches[x]
      /\ Awaits(fetches'[p])
  BY <1>1, AskKeeps DEF PageIsRight
<1>3. PageTypes'
  BY <1>1, <1>2 DEF PageTypes
<1>4. PageIsRight(p)'
  BY <1>2, AwaitingPage DEF PageIsRight
<1>5. ASSUME NEW x \in Pages, x # p PROVE Untouched(x) /\ (WillHear(x) => WillHear(x)')
  <2>1. Untouched(x)
    BY <1>2, <1>5 DEF Untouched
  <2>2. WillRead(x) => WillRead(x)'
    BY <2>1 DEF WillRead, Unserved, Untouched
  <2> QED
    BY <1>5, <2>1, <2>2 DEF WillHear
<1> QED
  BY <1>3, <1>4, <1>5, QuietStep

LEMMA OpenStep ==
  ASSUME FloorAssumption, IInv, NEW t \in Tabs, NEW u \in Users, Open(t, u)
  PROVE  IInv'
<1>1. HubIsRight /\ PageTypes /\ u # NoUser
  BY FloorAssumption, InParts DEF FloorAssumption, Users
<1>2. HubIsRight'
  BY <1>1, FloorAssumption DEF Open, HubIsRight, FloorAssumption
<1>3. CASE t \in Pages
  <2>1. Ask(t, AskLists) /\ owner'[t] # NoUser
    BY <1>1, <1>3 DEF Open, HubIsRight
  <2>2. \A x \in Pages : x # t =>
            owner'[x] = owner[x] /\ ring'[x] = ring[x] /\ (x \in missed => x \in missed')
    BY <1>1, FloorAssumption DEF Open, HubIsRight, FloorAssumption
  <2> QED
    BY <1>2, <1>3, <2>1, <2>2, ListingStep DEF Open
<1>4. CASE t \notin Pages
  <2>1. UNCHANGED <<fetches, screen, selected, panel, replies, astray, ring, missed, deskVars, said>>
    BY <1>4 DEF Open
  <2>2. ASSUME NEW x \in Pages PROVE Untouched(x) /\ (WillHear(x) => WillHear(x)')
    BY <1>1, <1>4, <2>1, FloorAssumption
       DEF Open, HubIsRight, FloorAssumption, Untouched, WillHear, WillRead, Unserved
  <2>3. PageTypes'
    BY <1>1, <2>1 DEF PageTypes
  <2> QED
    BY <1>2, <2>1, <2>2, <2>3, QuietStep
<1> QED
  BY <1>3, <1>4

LEMMA CloseStep ==
  ASSUME FloorAssumption, IInv, NEW t \in Tabs, Close(t)
  PROVE  IInv'
<1>1. HubIsRight /\ PageTypes /\ NoCall \notin Calls
  BY FloorAssumption, InParts DEF FloorAssumption
<1>2. HubIsRight'
  BY <1>1, FloorAssumption DEF Close, Disconnect, Emptied, HubIsRight, FloorAssumption
<1>3. <<>> \in Seq(Fetches) /\ DOMAIN <<>> = {}
  OBVIOUS
<1>4. PageTypes'
  BY <1>1, <1>3, Requests DEF Close, Emptied, PageTypes, NoPanel
<1>5. ASSUME NEW x \in Pages, x = t PROVE PageIsRight(x)'
  <2>1. owner'[x] = NoUser /\ fetches'[x] = <<>> /\ selected'[x] = NoCall
    BY <1>1, <1>5 DEF Close, Emptied, HubIsRight
  <2> QED
    BY <1>1, <1>3, <2>1 DEF PageIsRight, Orderly, ListsComing, PanelComing
<1>6. ASSUME NEW x \in Pages, x # t PROVE Untouched(x) /\ (WillHear(x) => WillHear(x)')
  <2>1. Untouched(x)
    BY <1>1, <1>6, FloorAssumption DEF Close, Emptied, HubIsRight, FloorAssumption, Untouched
  <2>2. WillRead(x) => WillRead(x)'
    BY <2>1 DEF WillRead, Unserved, Untouched
  <2>3. ring'[x] = ring[x] /\ (x \in missed => x \in missed')
    BY <1>6 DEF Close, Emptied
  <2> QED
    BY <2>1, <2>2, <2>3 DEF WillHear
<1>7. UNCHANGED <<deskVars, said>>
  BY DEF Close
<1> QED
  BY <1>2, <1>4, <1>5, <1>6, <1>7, QuietStep

\* A socket goes up, or is lost with what it had not delivered.
LEMMA SocketStep ==
  ASSUME FloorAssumption, IInv, NEW t \in Tabs, Connect(t) \/ Drop(t)
  PROVE  IInv'
<1>1. HubIsRight /\ PageTypes
  BY InParts
<1>2. HubIsRight'
  BY <1>1, FloorAssumption DEF Connect, Drop, Disconnect, Emptied, HubIsRight, FloorAssumption
<1>3. UNCHANGED <<deskVars, said, owner, fetches, screen, selected, panel, replies, astray>>
  BY DEF Connect, Drop, pageVars
<1>4. PageTypes'
  BY <1>1, <1>3 DEF PageTypes
<1>5. ASSUME NEW x \in Pages PROVE Untouched(x) /\ (WillHear(x) => WillHear(x)')
  <2>1. Untouched(x)
    BY <1>3 DEF Untouched
  <2>2. WillRead(x) <=> WillRead(x)'
    BY <1>3 DEF WillRead, Unserved
  <2>3. ring[x] \in Nat
    BY <1>1 DEF HubIsRight
  <2> QED
    BY <2>1, <2>2, <2>3 DEF Connect, Drop, Emptied, WillHear
<1> QED
  BY <1>2, <1>3, <1>4, <1>5, QuietStep

LEMMA AskingStep ==
  ASSUME FloorAssumption, IInv, NEW p \in Pages, Deliver(p) \/ Refresh(p)
  PROVE  IInv'
<1>1. HubIsRight /\ p \in Tabs
  BY FloorAssumption, InParts DEF FloorAssumption
<1>2. HubIsRight'
  BY <1>1, FloorAssumption DEF Deliver, Refresh, hubVars, HubIsRight, FloorAssumption
<1>3. owner'[p] # NoUser
  BY <1>1 DEF Deliver, Refresh, hubVars, HubIsRight
<1>4. \A x \in Pages : x # p =>
          owner'[x] = owner[x] /\ ring'[x] = ring[x] /\ (x \in missed => x \in missed')
  BY <1>1 DEF Deliver, Refresh, hubVars, HubIsRight
<1>5. Ask(p, AskLists) /\ UNCHANGED <<deskVars, said, screen, selected, panel, replies, astray>>
  BY DEF Deliver, Refresh
<1> QED
  BY <1>2, <1>3, <1>4, <1>5, ListingStep

\* The other pages when p is served, answered or clicked at.
LEMMA OtherPages ==
  ASSUME PageTypes, NEW p \in Pages,
         UNCHANGED <<owner, ring>>, missed \ {p} \subseteq missed', astray \ {p} \subseteq astray',
         \A x \in Pages : x # p =>
             /\ fetches'[x] = fetches[x] /\ screen'[x] = screen[x]
             /\ selected'[x] = selected[x] /\ panel'[x] = panel[x],
         NEW x \in Pages, x # p
  PROVE  Untouched(x) /\ (WillHear(x) => WillHear(x)')
<1>1. Untouched(x)
  BY DEF Untouched
<1>2. WillRead(x) => WillRead(x)'
  BY <1>1 DEF WillRead, Unserved, Untouched
<1> QED
  BY <1>1, <1>2 DEF WillHear

LEMMA SelectStep ==
  ASSUME FloorAssumption, IInv, NEW p \in Pages, NEW c \in Calls, Select(p, c)
  PROVE  IInv'
<1> DEFINE q == fetches[p]
           r == fetches'[p]
           f == AskPanel(c)
<1>1. HubIsRight /\ PageTypes /\ PageIsRight(p) /\ q \in Seq(Fetches) /\ Orderly(q)
  BY InParts DEF PageTypes, PageIsRight
<1>2. /\ UNCHANGED <<deskVars, said, hubVars, screen, panel, replies>> /\ Ask(p, f)
      /\ astray' = astray \ {p}
  BY DEF Select
<1>3. /\ fetches' \in [Pages -> Seq(Fetches)] /\ r = Append(q, f)
      /\ \A x \in Pages : x # p => fetches'[x] = fetches[x]
  BY <1>1, <1>2, AskKeeps
<1>4. f \in Fetches /\ ~f.served /\ f.what = "panel" /\ f.of = c /\ f.of \in Calls
  BY Requests
<1>5. /\ Orderly(r) /\ Keeps(q, r) /\ (NoLists(r) => NoLists(q))
      /\ Len(r) > 0 /\ r[Len(r)] = f
  <2> HIDE DEF q, r, f
  <2> QED
    BY <1>1, <1>3, <1>4, AskedPanel
<1>6. HubIsRight' /\ PageTypes'
  BY <1>1, <1>2, <1>3 DEF hubVars, HubIsRight, PageTypes, Select
<1>7. (WillRead(p) <=> Awaits(q)) /\ (WillRead(p)' <=> Awaits(r))
  BY DEF WillRead, Unserved, Awaits
<1>8. WillHear(p) => WillHear(p)'
  BY <1>2, <1>5, <1>7 DEF WillHear, Keeps, hubVars
<1>9. ListsComing(p)'
  <2>1. \A l : Shows(l, p) => Shows(l, p)'
    BY <1>2 DEF Shows, deskVars, hubVars
  <2> QED
    BY <1>1, <1>2, <1>5, <1>8, <2>1 DEF PageIsRight, ListsComing, Keeps, hubVars
<1>10. PanelComing(p)'
  <2>1. selected'[p] = c
    BY <1>1 DEF Select, PageTypes
  <2> HIDE DEF f
  <2> QED
    BY <1>4, <1>5, <2>1 DEF PanelComing
<1>11. PageIsRight(p)'
  <2>1. owner'[p] # NoUser
    BY FloorAssumption DEF Select, hubVars, FloorAssumption
  <2> QED
    BY <1>5, <1>9, <1>10, <2>1 DEF PageIsRight
<1>12. ASSUME NEW x \in Pages, x # p PROVE Untouched(x) /\ (WillHear(x) => WillHear(x)')
  <2>1. selected'[x] = selected[x]
    BY <1>1, <1>12 DEF Select, PageTypes
  <2> QED
    BY <1>2, <1>3, <1>12, <2>1 DEF Untouched, WillHear, WillRead, Unserved, hubVars
<1> QED
  BY <1>2, <1>6, <1>11, <1>12, QuietStep

LEMMA ServeStep ==
  ASSUME FloorAssumption, IInv, NEW p \in Pages, Serve(p)
  PROVE  IInv'
<1>1. TypeOK /\ PagesAreOrderly /\ HubIsRight /\ PageTypes /\ PageIsRight(p)
  BY IInvParts
<1>2. /\ fetches'[p] \in Seq(Fetches) /\ Orderly(fetches'[p])
      /\ ListsComing(p)' /\ PanelComing(p)'
  BY <1>1, ServePage DEF PageIsRight
<1>3. UNCHANGED <<deskVars, said, owner, socket, hub, ring, screen, selected, panel,
                  replies, astray>>
  BY DEF Serve
<1>4. missed' = missed \/ missed' = missed \ {p}
  BY DEF Serve
<1>5. \A x \in Pages : x # p => fetches'[x] = fetches[x]
  BY <1>1 DEF Serve, PageTypes
<1>6. fetches' \in [Pages -> Seq(Fetches)]
  <2>1. fetches' = [fetches EXCEPT ![p] = fetches'[p]]
    BY <1>1 DEF Serve, PageTypes
  <2> QED
    BY <1>1, <1>2, <2>1 DEF PageTypes
<1>7. HubIsRight' /\ PageTypes'
  BY <1>1, <1>3, <1>4, <1>6 DEF HubIsRight, PageTypes
<1>8. owner'[p] # NoUser
  <2>1. DOMAIN <<>> = {}
    OBVIOUS
  <2> QED
    BY <1>1, <1>3, <2>1 DEF Serve, Unserved, PageIsRight
<1>9. PageIsRight(p)'
  BY <1>2, <1>8 DEF PageIsRight
<1>10. ASSUME NEW x \in Pages, x # p PROVE Untouched(x) /\ (WillHear(x) => WillHear(x)')
  BY <1>1, <1>3, <1>4, <1>5, <1>10, OtherPages
<1> QED
  BY <1>3, <1>7, <1>9, <1>10, QuietStep

LEMMA ArriveStep ==
  ASSUME FloorAssumption, IInv, NEW p \in Pages, NEW i, Arrive(p, i)
  PROVE  IInv'
<1>1. /\ TypeOK /\ Desk!AssignedIffWorked /\ HubIsRight /\ PageTypes /\ PageIsRight(p)
      /\ fetches[p] \in Seq(Fetches) /\ i \in DOMAIN fetches[p]
  BY IInvParts DEF PageTypes, Arrive
<1>2. /\ fetches'[p] \in Seq(Fetches) /\ Orderly(fetches'[p])
      /\ ListsComing(p)' /\ PanelComing(p)'
  BY <1>1, ArrivesOrderly, ArrivePage DEF PageIsRight
<1>3. UNCHANGED <<deskVars, said, owner, socket, hub, ring, selected, replies>>
  BY DEF Arrive
<1>4. /\ missed' = missed \/ missed' = missed \cup {p}
      /\ astray' = astray \/ astray' = astray \ {p}
  BY DEF Arrive, ListsArrive, PanelArrives
<1>5. fetches[p][i] \in Fetches
  <2>1. i \in 1 .. Len(fetches[p])
    BY <1>1, LenProperties
  <2> QED
    BY <1>1, <2>1, ElementOfSeq
<1>6. \A x \in Pages : x # p =>
          fetches'[x] = fetches[x] /\ screen'[x] = screen[x] /\ panel'[x] = panel[x]
  BY <1>1 DEF Arrive, ListsArrive, PanelArrives, PageTypes
<1>7. fetches' \in [Pages -> Seq(Fetches)]
  <2>1. fetches' = [fetches EXCEPT ![p] = fetches'[p]]
    BY <1>1 DEF Arrive, ListsArrive, PanelArrives, PageTypes
  <2> QED
    BY <1>1, <1>2, <2>1 DEF PageTypes
<1>8. screen' \in [Pages -> Screens]
  BY <1>1, <1>5 DEF Arrive, ListsArrive, PanelArrives, PageTypes, Fetches
<1>9. panel' \in [Pages -> [of : Calls \cup {NoCall}, count : Nat]]
  BY <1>1, <1>5 DEF Arrive, ListsArrive, PanelArrives, PageTypes, Fetches, NoPanel
<1>10. HubIsRight' /\ PageTypes'
  BY <1>1, <1>3, <1>4, <1>7, <1>8, <1>9 DEF HubIsRight, PageTypes
<1>11. owner'[p] # NoUser
  <2>1. DOMAIN <<>> = {}
    OBVIOUS
  <2> QED
    BY <1>1, <1>3, <2>1 DEF PageIsRight
<1>12. PageIsRight(p)'
  BY <1>2, <1>11 DEF PageIsRight
<1>13. ASSUME NEW x \in Pages, x # p PROVE Untouched(x) /\ (WillHear(x) => WillHear(x)')
  BY <1>1, <1>3, <1>4, <1>6, <1>13, OtherPages
<1> QED
  BY <1>3, <1>10, <1>12, <1>13, QuietStep

\* A request fails: what it was to renew is not claimed of the page any more.
LEMMA FailStep ==
  ASSUME FloorAssumption, IInv, NEW p \in Pages, Fail(p)
  PROVE  IInv'
<1> DEFINE q == fetches[p]
           r == fetches'[p]
           i == Min(Unserved(p))
<1>1. /\ TypeOK /\ HubIsRight /\ PageTypes /\ PageIsRight(p)
      /\ q \in Seq(Fetches) /\ Orderly(q)
  BY IInvParts DEF PageTypes, PageIsRight
<1>2. i \in DOMAIN q /\ ~q[i].served
  BY <1>1, OldestWaits DEF Fail
<1>3. /\ r = RemoveAt(q, i)
      /\ \A x \in Pages : x # p => fetches'[x] = fetches[x]
      /\ UNCHANGED <<deskVars, said, owner, socket, hub, ring, screen, selected, panel, replies>>
      /\ IF q[i].what = "lists" THEN missed' = missed \cup {p} /\ astray' = astray
         ELSE astray' = astray \cup {p} /\ missed' = missed
  BY <1>1 DEF Fail, PageTypes
<1>4. r \in Seq(Fetches) /\ Orderly(r)
  <2> HIDE DEF q, r, i
  <2> QED
    BY <1>1, <1>2, <1>3, Removed, RemovedOrderly
<1>5. fetches' \in [Pages -> Seq(Fetches)]
  <2>1. fetches' = [fetches EXCEPT ![p] = r]
    BY <1>1 DEF Fail, PageTypes
  <2> QED
    BY <1>1, <1>4, <2>1 DEF PageTypes
<1>6. HubIsRight' /\ PageTypes'
  <2> HIDE DEF q, r, i
  <2> QED
    BY <1>1, <1>3, <1>5 DEF HubIsRight, PageTypes
<1>7. ListsComing(p)' /\ PanelComing(p)'
  <2>1. CASE q[i].what = "lists"
    <3>1. WillHear(p)'
      BY <1>3, <2>1 DEF WillHear
    <3> QED
      BY <3>1 DEF ListsComing, PanelComing
  <2>2. CASE q[i].what # "lists"
    <3>1. q[i].what = "panel"
      <4> HIDE DEF q, i
      <4>1. q[i] \in Fetches
        BY <1>1, <1>2, LenProperties, ElementOfSeq
      <4> QED
        BY <2>2, <4>1 DEF Fetches
    <3>2. Keeps(q, r) /\ (NoLists(r) => NoLists(q))
      <4> HIDE DEF q, r, i
      <4> QED
        BY <1>1, <1>2, <1>3, <3>1, RemovedKeeps DEF LastLists
    <3>3. (WillRead(p) <=> Awaits(q)) /\ (WillRead(p)' <=> Awaits(r))
      BY DEF WillRead, Unserved, Awaits
    <3>4. WillHear(p) => WillHear(p)'
      BY <1>3, <2>2, <3>2, <3>3 DEF WillHear, Keeps
    <3>5. \A l : Shows(l, p) => Shows(l, p)'
      BY <1>3 DEF Shows, deskVars
    <3>6. ListsComing(p)'
      BY <1>1, <1>3, <3>2, <3>4, <3>5 DEF PageIsRight, ListsComing, Keeps
    <3> QED
      BY <1>3, <2>2, <3>6 DEF PanelComing
  <2> QED
    BY <2>1, <2>2
<1>8. PageIsRight(p)'
  <2>1. DOMAIN <<>> = {}
    OBVIOUS
  <2>2. owner'[p] # NoUser
    BY <1>1, <1>2, <1>3, <2>1 DEF PageIsRight
  <2> QED
    BY <1>4, <1>7, <2>2 DEF PageIsRight
<1>9. ASSUME NEW x \in Pages, x # p PROVE Untouched(x) /\ (WillHear(x) => WillHear(x)')
  <2>1. missed \ {p} \subseteq missed' /\ astray \ {p} \subseteq astray'
    BY <1>3
  <2> QED
    BY <1>1, <1>3, <1>9, <2>1, OtherPages
<1> QED
  BY <1>3, <1>6, <1>8, <1>9, QuietStep

\* A send is answered: the messages asked for are those of the selection, or the page is
\* astray.
LEMMA RepliedStep ==
  ASSUME FloorAssumption, IInv, NEW p \in Pages, NEW c \in Calls, Replied(p, c)
  PROVE  IInv'
<1> DEFINE q == fetches[p]
           r == fetches'[p]
           f == AskPanel(c)
<1>1. HubIsRight /\ PageTypes /\ PageIsRight(p) /\ q \in Seq(Fetches) /\ Orderly(q)
  BY InParts DEF PageTypes, PageIsRight
<1>2. /\ UNCHANGED <<deskVars, said, hubVars, screen, selected, panel>> /\ Ask(p, f)
      /\ replies' = [replies EXCEPT ![p] = @ \ {c}]
      /\ IF selected[p] = c THEN astray' = astray ELSE astray' = astray \cup {p}
  BY DEF Replied
<1>3. /\ fetches' \in [Pages -> Seq(Fetches)] /\ r = Append(q, f)
      /\ \A x \in Pages : x # p => fetches'[x] = fetches[x]
  BY <1>1, <1>2, AskKeeps
<1>4. f \in Fetches /\ ~f.served /\ f.what = "panel" /\ f.of = c /\ f.of \in Calls
  BY Requests
<1>5. /\ Orderly(r) /\ Keeps(q, r) /\ (NoLists(r) => NoLists(q))
      /\ Len(r) > 0 /\ r[Len(r)] = f
  <2> HIDE DEF q, r, f
  <2> QED
    BY <1>1, <1>3, <1>4, AskedPanel
<1>6. HubIsRight' /\ PageTypes'
  <2>1. HubIsRight'
    BY <1>1, <1>2 DEF hubVars, HubIsRight
  <2>2. replies' \in [Pages -> SUBSET Calls] /\ astray' \subseteq Pages
    BY <1>1, <1>2 DEF PageTypes
  <2> QED
    BY <1>1, <1>2, <1>3, <2>1, <2>2 DEF PageTypes
<1>7. (WillRead(p) <=> Awaits(q)) /\ (WillRead(p)' <=> Awaits(r))
  BY DEF WillRead, Unserved, Awaits
<1>8. WillHear(p) => WillHear(p)'
  BY <1>2, <1>5, <1>7 DEF WillHear, Keeps, hubVars
<1>9. ListsComing(p)'
  <2>1. \A l : Shows(l, p) => Shows(l, p)'
    BY <1>2 DEF Shows, deskVars, hubVars
  <2> QED
    BY <1>1, <1>2, <1>5, <1>8, <2>1 DEF PageIsRight, ListsComing, Keeps, hubVars
<1>10. PanelComing(p)'
  <2> HIDE DEF f
  <2>1. CASE selected[p] = c
    BY <1>2, <1>4, <1>5, <2>1 DEF PanelComing
  <2>2. CASE selected[p] # c
    BY <1>2, <2>2 DEF PanelComing
  <2> QED
    BY <2>1, <2>2
<1>11. PageIsRight(p)'
  <2>1. owner'[p] # NoUser
    BY <1>2 DEF Replied, hubVars
  <2> QED
    BY <1>5, <1>9, <1>10, <2>1 DEF PageIsRight
<1>12. ASSUME NEW x \in Pages, x # p PROVE Untouched(x) /\ (WillHear(x) => WillHear(x)')
  BY <1>2, <1>3, <1>12 DEF Untouched, WillHear, WillRead, Unserved, hubVars
<1> QED
  BY <1>2, <1>6, <1>11, <1>12, QuietStep

LEMMA UnansweredStep ==
  ASSUME FloorAssumption, IInv, NEW p \in Pages, NEW c \in Calls, Unanswered(p, c)
  PROVE  IInv'
<1>1. HubIsRight /\ PageTypes
  BY InParts
<1>2. /\ UNCHANGED <<deskVars, said, hubVars, fetches, screen, selected, panel, astray>>
      /\ replies' = [replies EXCEPT ![p] = @ \ {c}]
  BY DEF Unanswered
<1>3. HubIsRight' /\ PageTypes'
  BY <1>1, <1>2 DEF hubVars, HubIsRight, PageTypes
<1>4. ASSUME NEW x \in Pages PROVE Untouched(x) /\ (WillHear(x) => WillHear(x)')
  BY <1>2 DEF Untouched, WillHear, WillRead, Unserved, hubVars
<1> QED
  BY <1>2, <1>3, <1>4, QuietStep

\* What an agent does at the page.
LEMMA ClickStep ==
  ASSUME FloorAssumption, IInv, NEW p \in Pages,
         \/ \E c \in Calls : ClaimAtPage(p, c)
         \/ WrapUpAtPage(p) \/ SayAtPage(p)
  PROVE  IInv'
<1>1. HubIsRight /\ PageTypes /\ PageIsRight(p)
  BY InParts
<1>2. NoPanel \in [of : Calls \cup {NoCall}, count : Nat]
  BY DEF NoPanel
<1>3. ASSUME NEW c \in Calls, ClaimAtPage(p, c) PROVE IInv'
  <2>1. owner[p] \in Agents /\ owner[p] # NoUser
    BY <1>3, FloorAssumption DEF ClaimAtPage, FloorAssumption
  <2>2. OnlyAsks(p, AskLists)
    BY <1>1, <1>2, <1>3, <2>1 DEF ClaimAtPage, Claim, Publish, OnlyAsks, PageTypes
  <2>3. Moves(c, owner[p]) /\ Publish(owner[p]) /\ said' = said
    BY <1>3, <2>1 DEF ClaimAtPage, Claim, Moves
  <2> QED
    BY <2>2, <2>3, MovingStep
<1>4. CASE WrapUpAtPage(p)
  <2> DEFINE c == selected[p]
  <2>1. c \in Calls /\ owner[p] # NoUser
    BY <1>1, <1>4, FloorAssumption DEF WrapUpAtPage, IsOwn, PageTypes, PageIsRight
  <2>2. OnlyAsks(p, AskLists)
    BY <1>1, <1>2, <1>4, <2>1 DEF WrapUpAtPage, WrapUp, Publish, OnlyAsks, PageTypes
  <2>3. Moves(c, assignee[c]) /\ Publish(assignee[c]) /\ said' = said
    BY <1>4 DEF WrapUpAtPage, WrapUp, Moves
  <2> QED
    BY <2>1, <2>2, <2>3, MovingStep
<1>5. CASE SayAtPage(p)
  <2> DEFINE c == selected[p]
  <2>1. c \in Calls /\ Say(c)
    BY <1>1, <1>5 DEF SayAtPage, IsOwn, PageTypes
  <2>2. /\ UNCHANGED <<fetches, screen, selected, panel, astray>>
        /\ replies' \in [Pages -> SUBSET Calls]
    BY <1>1, <1>5, <2>1 DEF SayAtPage, PageTypes
  <2> QED
    BY <2>1, <2>2, SayingStep
<1> QED
  BY <1>3, <1>4, <1>5

\* What others do to a chat.
LEMMA FloorStep ==
  ASSUME FloorAssumption, IInv, NEW c \in Calls, UNCHANGED pageVars,
         \/ StartChat(c) \/ WrapUp(c) \/ Say(c)
         \/ \E a \in Agents : Assign(c, a) \/ Claim(c, a)
  PROVE  IInv'
<1>1. CASE StartChat(c)
  <2>1. Moves(c, NoAgent) /\ Publish(NoAgent) /\ said' = [said EXCEPT ![c] = 1]
    BY <1>1 DEF StartChat, Moves
  <2> QED
    BY <2>1, MovingStep
<1>2. CASE WrapUp(c)
  <2>1. Moves(c, assignee[c]) /\ Publish(assignee[c]) /\ said' = said
    BY <1>2 DEF WrapUp, Moves
  <2> QED
    BY <2>1, MovingStep
<1>3. CASE Say(c)
  <2>1. /\ UNCHANGED <<fetches, screen, selected, panel, astray>>
        /\ replies' \in [Pages -> SUBSET Calls]
    BY InParts DEF pageVars, PageTypes
  <2> QED
    BY <1>3, <2>1, SayingStep
<1>4. ASSUME NEW a \in Agents, Assign(c, a) \/ Claim(c, a) PROVE IInv'
  <2>1. Moves(c, a) /\ Publish(a) /\ said' = said
    BY <1>4 DEF Assign, Claim, Moves
  <2> QED
    BY <2>1, MovingStep
<1> QED
  BY <1>1, <1>2, <1>3, <1>4

LEMMA NextIInv == ASSUME FloorAssumption, IInv, [Next]_vars PROVE IInv'
<1>1. ASSUME NEW c \in Calls,
             \/ StartChat(c)
             \/ \E a \in Agents : Assign(c, a) \/ (Claim(c, a) /\ UNCHANGED pageVars)
             \/ (WrapUp(c) \/ Say(c)) /\ UNCHANGED pageVars
      PROVE  IInv'
  <2>1. UNCHANGED pageVars
    BY <1>1 DEF StartChat, Assign, pageVars
  <2> QED
    BY <1>1, <2>1, FloorStep
<1>2. ASSUME NEW t \in Tabs, (\E u \in Users : Open(t, u)) \/ Connect(t) \/ Drop(t) \/ Close(t)
      PROVE  IInv'
  BY <1>2, OpenStep, SocketStep, CloseStep
<1>3. ASSUME NEW p \in Pages,
             \/ Deliver(p) \/ Refresh(p) \/ Serve(p) \/ Fail(p)
             \/ \E c \in Calls :
                   ClaimAtPage(p, c) \/ Select(p, c) \/ Replied(p, c) \/ Unanswered(p, c)
             \/ WrapUpAtPage(p) \/ SayAtPage(p)
             \/ \E i \in DOMAIN fetches[p] : Arrive(p, i)
      PROVE  IInv'
  BY <1>3, AskingStep, ServeStep, FailStep, ClickStep, SelectStep, RepliedStep,
     UnansweredStep, ArriveStep
<1>4. CASE UNCHANGED vars
  <2>1. HubIsRight /\ PageTypes /\ UNCHANGED <<deskVars, said>>
    BY <1>4, InParts DEF vars
  <2>2. HubIsRight' /\ PageTypes'
    BY <1>4, <2>1 DEF vars, hubVars, pageVars, HubIsRight, PageTypes
  <2>3. ASSUME NEW x \in Pages PROVE Untouched(x) /\ (WillHear(x) => WillHear(x)')
    BY <1>4 DEF vars, hubVars, pageVars, Untouched, WillHear, WillRead, Unserved
  <2> QED
    BY <2>1, <2>2, <2>3, QuietStep
<1> QED
  BY <1>1, <1>2, <1>3, <1>4 DEF Next

\* The invariant holds of every reachable state: requests are answered in order,
\* and a page that will hear of no further change awaits, or shows, what is.
THEOREM IInvHolds == Spec => []IInv
  BY FloorAssumption, InitIInv, NextIInv, PTL DEF Spec

\* A page at rest that missed no event shows every conversation of its user, as
\* main.py has it.
THEOREM RestingListsAreCurrent == Spec => []ListsAreCurrent
<1>1. IInv => ListsAreCurrent
  <2> SUFFICES ASSUME IInv, NEW p \in Pages \ missed, AtRest(p) PROVE Shows(screen[p], p)
    BY DEF ListsAreCurrent, Shows
  <2>1. ListsComing(p)
    BY InParts DEF PageIsRight
  <2>2. DOMAIN <<>> = {}
    OBVIOUS
  <2>3. owner[p] # NoUser /\ ~WillHear(p) /\ NoLists(fetches[p])
    BY <2>2 DEF AtRest, WillHear, WillRead, Unserved, NoLists
  <2> QED
    BY <2>1, <2>3 DEF ListsComing
<1> QED
  BY IInvHolds, <1>1, PTL

\* An agent's page at rest that missed no event, and did not ask last for the messages
\* of a chat it had left, shows all messages of the chat that is selected on it, and no
\* other chat's.
THEOREM RestingPanelIsCurrent == Spec => []PanelIsCurrent
<1>1. IInv => PanelIsCurrent
  <2> SUFFICES ASSUME IInv, NEW p \in Pages \ (missed \cup astray), AtRest(p), selected[p] # NoCall,
                      owner[p] = assignee[selected[p]]
               PROVE  panel[p] = [of |-> selected[p], count |-> said[selected[p]]]
    BY DEF PanelIsCurrent
  <2>1. PanelComing(p) /\ selected[p] \in Calls
    BY InParts DEF PageIsRight, PageTypes
  <2>2. DOMAIN <<>> = {} /\ Len(<<>>) = 0
    OBVIOUS
  <2>3. Len(fetches[p]) = 0 /\ ~WillHear(p) /\ NoLists(fetches[p])
    BY <2>2 DEF AtRest, WillHear, WillRead, Unserved, NoLists
  <2> QED
    BY <2>1, <2>3 DEF PanelComing
<1> QED
  BY IInvHolds, <1>1, PTL

\* A click at a page is a handler of the desk by that page's user, and nothing that the
\* hub, the sockets and the screens do touches the desk: what is proved of the desk holds
\* of it on the floor.
THEOREM FloorUsesDesk == Spec => Desk!Spec
<1>1. Init => Desk!Init
  BY DEF Init
<1>2. TypeOK /\ [Next]_vars => [Desk!Next]_(Desk!vars)
  <2> SUFFICES ASSUME TypeOK, [Next]_vars PROVE Desk!Next \/ UNCHANGED deskVars
    BY DEF deskVars, Desk!vars, Desk!conversationVars, Desk!lineVars, Desk!presenceVars
  <2>1. ASSUME NEW c \in Calls,
               StartChat(c) \/ WrapUp(c) \/ \E a \in Agents : Assign(c, a) \/ Claim(c, a)
        PROVE  Desk!Next
    BY <2>1 DEF StartChat, Assign, Claim, WrapUp, Desk!Next
  <2>2. ASSUME NEW p \in Pages, NEW c \in Calls, ClaimAtPage(p, c) PROVE Desk!Next
    BY <2>1, <2>2 DEF ClaimAtPage
  <2>3. ASSUME NEW p \in Pages, WrapUpAtPage(p) PROVE Desk!Next
    <3>1. selected[p] \in Calls
      BY <2>3 DEF WrapUpAtPage, IsOwn, TypeOK
    <3> QED
      BY <2>1, <2>3, <3>1 DEF WrapUpAtPage
  <2>4. ASSUME NEW c \in Calls, Say(c) PROVE UNCHANGED deskVars
    BY <2>4 DEF Say
  <2>5. ASSUME NEW t \in Tabs,
               (\E u \in Users : Open(t, u)) \/ Connect(t) \/ Drop(t) \/ Close(t)
        PROVE  UNCHANGED deskVars
    BY <2>5 DEF Open, Connect, Drop, Close
  <2>6. ASSUME NEW p \in Pages,
               \/ Deliver(p) \/ Refresh(p) \/ Serve(p) \/ Fail(p) \/ SayAtPage(p)
               \/ \E c \in Calls : Select(p, c) \/ Replied(p, c) \/ Unanswered(p, c)
               \/ \E i \in DOMAIN fetches[p] : Arrive(p, i)
        PROVE  UNCHANGED deskVars
    BY <2>6 DEF Deliver, Refresh, Serve, Fail, SayAtPage, Say, Select, Replied, Unanswered,
                Arrive
  <2>7. CASE UNCHANGED vars
    BY <2>7 DEF vars
  <2> QED
    BY <2>1, <2>2, <2>3, <2>4, <2>5, <2>6, <2>7 DEF Next
<1>3. IInv => TypeOK
  BY DEF IInv
<1> QED
  BY <1>1, <1>2, <1>3, IInvHolds, PTL DEF Spec, Desk!Spec
=============================================================================
