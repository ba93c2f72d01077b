---------------------------- MODULE QAReviewProofs ----------------------------
(***************************************************************************)
(* The reviews of QAReview, for any evaluations, reviewers, consoles,      *)
(* scores and number of reviews.                                           *)
(***************************************************************************)
EXTENDS QAReview, SequenceTheorems, TLAPS

\* The stages of a request carry the records their names promise.
LEMMA RequestKinds ==
  ASSUME TypeOK, NEW r \in Reviewers
  PROVE  /\ request[r].at \in {"idle", "sent", "read", "saved"}
         /\ request[r].at = "idle" => request[r] = Idle
         /\ UnderWay(r) => request[r].filed \in Filed
         /\ request[r].at = "read" =>
               /\ request[r].previous \in ScoreOrNone
               /\ request[r].reviewed \in ScoreOrNone
               /\ request[r].status \in Statuses
         /\ request[r].at = "saved" => request[r].of \in Evaluations
<1>1. request[r] \in {Idle} \cup Sent \cup Read \cup Saving
  BY DEF TypeOK
<1>2. CASE request[r] = Idle
  BY <1>2 DEF Idle, UnderWay
<1>3. CASE request[r] \in Sent
  BY <1>3 DEF Sent, UnderWay
<1>4. CASE request[r] \in Read
  BY <1>4 DEF Read, UnderWay
<1>5. CASE request[r] \in Saving
  BY <1>5 DEF Saving, UnderWay
<1> QED
  BY <1>1, <1>2, <1>3, <1>4, <1>5

\* A history with one more review.
LEMMA Longer ==
  ASSUME NEW h \in Seq(Reviews), NEW v \in Reviews, NEW g, g = Append(h, v)
  PROVE  /\ g \in Seq(Reviews) /\ g # <<>> /\ Len(g) = Len(h) + 1 /\ Len(h) \in Nat
         /\ DOMAIN h = 1 .. Len(h) /\ DOMAIN g = 1 .. Len(h) + 1
         /\ \A i \in 1 .. Len(h) : g[i] = h[i]
         /\ g[Len(h) + 1] = v
         /\ h = <<>> <=> Len(h) = 0
<1>1. /\ g \in Seq(Reviews) /\ Len(g) = Len(h) + 1
      /\ \A i \in 1 .. Len(h) : g[i] = h[i]
      /\ g[Len(h) + 1] = v
  BY AppendProperties
<1>2. Len(h) \in Nat /\ DOMAIN h = 1 .. Len(h) /\ (h = <<>> <=> Len(h) = 0)
  BY LenProperties, EmptySeq
<1>3. DOMAIN g = 1 .. Len(g) /\ (g = <<>> <=> Len(g) = 0)
  BY <1>1, LenProperties, EmptySeq
<1> QED
  BY <1>1, <1>2, <1>3

\* What load may select is in the list, and hence exists.
LEMMA MayChooseListed ==
  ASSUME TypeOK, NEW r \in Consoles, NEW only \in BOOLEAN, NEW e \in MayChoose(r, Listed(only))
  PROVE  /\ e \in Evaluations \cup {NoEval}
         /\ e # NoEval => Exists(e)
         /\ NewlyChosen(r, e) \subseteq Evaluations
         /\ \A x \in NewlyChosen(r, e) : x = e /\ Exists(x)
         /\ NewlyChosen(r, e) = {} => e \in {NoEval, selected[r]}
  BY DEF TypeOK, MayChoose, Listed, NewlyChosen

\* A console that selects, and asks for what it selected, still awaits or shows
\* its selection unless its details race.
LEMMA ChooseShows ==
  ASSUME TypeOK, SeenExist, ShownIsSelected,
         NEW r \in Consoles, NEW e \in Evaluations \cup {NoEval},
         NEW es \in SUBSET Evaluations,
         e # NoEval => Exists(e), \A x \in es : Exists(x),
         es = {} => e \in {NoEval, selected[r]},
         Choose(r, e, es), UNCHANGED <<automatic, fatal, detail>>
  PROVE  /\ selected' \in [Consoles -> Evaluations \cup {NoEval}]
         /\ loading' \in [Consoles -> SUBSET Evaluations]
         /\ raced' \subseteq Consoles
         /\ SeenExist' /\ ShownIsSelected'
<1>1. /\ selected' \in [Consoles -> Evaluations \cup {NoEval}]
      /\ loading' \in [Consoles -> SUBSET Evaluations]
      /\ raced' \subseteq Consoles
  BY DEF Choose, TypeOK
<1>2. SeenExist'
  BY DEF Choose, TypeOK, SeenExist, Exists
<1>3. ASSUME NEW c \in Consoles
      PROVE /\ detail'[c].fatal <=> (detail'[c].of # NoEval /\ fatal'[detail'[c].of])
            /\ c \notin raced' =>
                  IF loading'[c] = {} THEN selected'[c] \in {NoEval, detail'[c].of}
                  ELSE \E x \in loading'[c] : loading'[c] = {x} /\ selected'[c] \in {NoEval, x}
  <2>0. detail'[c].fatal <=> (detail'[c].of # NoEval /\ fatal'[detail'[c].of])
    BY DEF ShownIsSelected
  <2>1. CASE c # r
    <3>1. /\ selected'[c] = selected[c] /\ loading'[c] = loading[c] /\ detail'[c] = detail[c]
          /\ c \in raced' <=> c \in raced
      BY <2>1 DEF Choose, TypeOK
    <3> QED
      BY <2>0, <3>1 DEF ShownIsSelected
  <2>2. CASE c = r /\ es = {}
    <3>1. /\ selected'[c] \in {NoEval, selected[c]} /\ loading'[c] = loading[c] /\ detail'[c] = detail[c]
          /\ c \in raced' <=> c \in raced
      BY <2>2 DEF Choose, TypeOK
    <3> QED
      BY <2>0, <3>1 DEF ShownIsSelected
  <2>3. CASE c = r /\ es # {}
    <3>1. selected'[r] = e /\ (r \notin raced' => loading'[r] = {e})
      BY <2>3 DEF Choose, TypeOK
    <3> QED
      BY <2>0, <2>3, <3>1
  <2> QED
    BY <2>1, <2>2, <2>3
<1> QED
  BY <1>1, <1>2, <1>3 DEF ShownIsSelected

LEMMA InitIInv == Init => IInv
<1> SUFFICES ASSUME Init PROVE IInv
  OBVIOUS
<1> USE ReviewAssumption
<1>1. <<>> \in Seq(Reviews) /\ DOMAIN <<>> = {}
  OBVIOUS
<1>2. TypeOK
  BY <1>1 DEF Init, TypeOK, ScoreOrNone, Statuses, NoDetail, Details
<1>3. \A r \in Reviewers : request[r].at = "idle"
  BY DEF Init, Idle
<1>4. SeenExist /\ FiledExist /\ ReadIsGiven /\ FiledIsInformed
  BY <1>3 DEF Init, SeenExist, FiledExist, UnderWay, InHand, NoDetail, ReadIsGiven, FiledIsInformed
<1>5. HistoryIsAChain /\ VerdictWasGiven /\ UnracedIsInformed
  BY <1>1 DEF Init, HistoryIsAChain, VerdictWasGiven, UnracedIsInformed
<1>6. ShownIsSelected
  BY DEF Init, ShownIsSelected, NoDetail
<1> QED
  BY <1>2, <1>4, <1>5, <1>6 DEF IInv

\* A step that leaves the rows alone, and the requests at the database, keeps
\* all that is said of the two.
LEMMA RowsKept ==
  ASSUME IInv, UNCHANGED rows,
         \A r \in Reviewers : request'[r].at = "read" => request'[r] = request[r]
  PROVE  HistoryIsAChain' /\ VerdictWasGiven' /\ UnracedIsInformed' /\ ReadIsGiven'
<1>1. HistoryIsAChain' /\ VerdictWasGiven' /\ UnracedIsInformed'
  BY DEF IInv, rows, HistoryIsAChain, VerdictWasGiven, UnracedIsInformed
<1>2. \A r \in Reviewers, e \in Evaluations : InHand(r, e)' => InHand(r, e) /\ request'[r] = request[r]
  BY DEF InHand
<1>3. ReadIsGiven'
  BY <1>2 DEF IInv, rows, ReadIsGiven, EffectiveScore
<1> QED
  BY <1>1, <1>3

\* A step that leaves the requests alone keeps what is said of those under way.
LEMMA RequestsKept ==
  ASSUME IInv, UNCHANGED <<request, automatic, fatal, history>>
  PROVE  FiledIsInformed' /\ FiledExist'
<1>1. \A r \in Reviewers : UnderWay(r)' <=> UnderWay(r)
  BY DEF UnderWay
<1>2. \A r \in Reviewers : UnderWay(r) => request[r].filed.of \in Evaluations
  BY RequestKinds DEF IInv, Filed
<1>3. FiledIsInformed'
  BY <1>1, <1>2 DEF IInv, FiledIsInformed
<1> QED
  BY <1>1, <1>2, <1>3 DEF IInv, FiledExist, Exists

LEMMA EvaluateKeeps ==
  ASSUME IInv, NEW e \in Evaluations, NEW s \in Scores, NEW f \in BOOLEAN, Evaluate(e, s, f)
  PROVE  IInv'
<1> USE ReviewAssumption
<1>1. /\ automatic' = [automatic EXCEPT ![e] = s] /\ fatal' = [fatal EXCEPT ![e] = f]
      /\ automatic[e] = NoScore
      /\ UNCHANGED <<reviewed, status, history, overlapped, selected, fatalOnly, detail,
                     loading, request, raced>>
  BY DEF Evaluate, Exists, consoles
<1>2. TypeOK'
  BY <1>1 DEF IInv, TypeOK, ScoreOrNone
<1>3. \A x \in Evaluations : Exists(x) => x # e /\ Exists(x)' /\ fatal'[x] = fatal[x] /\ automatic'[x] = automatic[x]
  BY <1>1 DEF IInv, TypeOK, Exists
<1>4. \A r \in Reviewers :
         /\ UnderWay(r)' <=> UnderWay(r)
         /\ UnderWay(r) => request[r].filed.of \in Evaluations
         /\ request[r].at = "saved" => request[r].of \in Evaluations
  BY <1>1, RequestKinds DEF IInv, UnderWay, Filed
<1>5. \A c \in Consoles : /\ selected[c] # NoEval => selected[c] \in Evaluations
                          /\ detail[c].of # NoEval => detail[c].of \in Evaluations
                          /\ loading[c] \subseteq Evaluations
  BY DEF IInv, TypeOK, Details, NoDetail
<1>6. SeenExist' /\ FiledExist'
  <2>1. \A r \in Reviewers : /\ UnderWay(r)' => Exists(request[r].filed.of)'
                             /\ request'[r].at = "saved" => Exists(request[r].of)'
    BY <1>1, <1>3, <1>4 DEF IInv, FiledExist, Exists
  <2>2. \A x \in Evaluations : history'[x] # <<>> => Exists(x)'
    BY <1>1, <1>3 DEF IInv, FiledExist
  <2>3. SeenExist'
    BY <1>1, <1>3, <1>5 DEF IInv, SeenExist, Exists
  <2> QED
    BY <2>1, <2>2, <2>3 DEF FiledExist
<1>7. \A x \in Evaluations : history[x] # <<>> => automatic'[x] = automatic[x]
  BY <1>3 DEF IInv, FiledExist
<1>8. DOMAIN <<>> = {}
  OBVIOUS
<1>9. HistoryIsAChain' /\ VerdictWasGiven' /\ UnracedIsInformed'
  BY <1>1, <1>7, <1>8 DEF IInv, HistoryIsAChain, VerdictWasGiven, UnracedIsInformed
<1>10. ReadIsGiven'
  <2>1. \A r \in Reviewers, x \in Evaluations :
           InHand(r, x)' => InHand(r, x) /\ automatic'[x] = automatic[x]
    BY <1>1, <1>3 DEF IInv, FiledExist, InHand, UnderWay
  <2> QED
    BY <1>1, <2>1 DEF IInv, ReadIsGiven, EffectiveScore
<1>11. ShownIsSelected'
  BY <1>1, <1>3, <1>5 DEF IInv, SeenExist, ShownIsSelected
<1>12. FiledIsInformed'
  BY <1>1, <1>3, <1>4 DEF IInv, FiledExist, FiledIsInformed
<1> QED
  BY <1>2, <1>6, <1>9, <1>10, <1>11, <1>12 DEF IInv

\* The steps that only change what a console selects, awaits or shows.
LEMMA BrowsingKeeps ==
  ASSUME IInv, NEW r \in Consoles,
         \/ \E only \in BOOLEAN : List(r, only)
         \/ \E e \in Evaluations : Select(r, e) \/ DetailArrives(r, e)
         \/ Resolve(r)
  PROVE  IInv'
<1> USE ReviewAssumption
<1>0. r \in Reviewers
  OBVIOUS
<1>1. UNCHANGED rows /\ request' = request /\ UNCHANGED <<automatic, fatal, history>>
  BY DEF List, Select, DetailArrives, Resolve, rows
<1>2. HistoryIsAChain' /\ VerdictWasGiven' /\ UnracedIsInformed' /\ ReadIsGiven'
  BY <1>1, RowsKept
<1>3. FiledIsInformed' /\ FiledExist'
  BY <1>1, RequestsKept
<1>4. SUFFICES TypeOK' /\ SeenExist' /\ ShownIsSelected'
  BY <1>2, <1>3 DEF IInv
<1>5. ASSUME NEW only \in BOOLEAN, List(r, only) PROVE TypeOK' /\ SeenExist' /\ ShownIsSelected'
  <2>1. PICK e \in MayChoose(r, Listed(only)) : Choose(r, e, NewlyChosen(r, e))
    BY <1>5 DEF List
  <2>2. /\ detail' = detail /\ fatalOnly' = [fatalOnly EXCEPT ![r] = only]
    BY <1>5 DEF List
  <2>3. /\ selected' \in [Consoles -> Evaluations \cup {NoEval}]
        /\ loading' \in [Consoles -> SUBSET Evaluations] /\ raced' \subseteq Consoles
        /\ SeenExist' /\ ShownIsSelected'
    BY <1>1, <2>1, <2>2, MayChooseListed, ChooseShows DEF IInv
  <2> QED
    BY <1>1, <2>2, <2>3 DEF IInv, TypeOK, rows
<1>6. ASSUME NEW e \in Evaluations, Select(r, e) PROVE TypeOK' /\ SeenExist' /\ ShownIsSelected'
  <2>1. Exists(e) /\ Choose(r, e, {e}) /\ UNCHANGED <<detail, fatalOnly>>
    BY <1>6 DEF Select
  <2>3. /\ selected' \in [Consoles -> Evaluations \cup {NoEval}]
        /\ loading' \in [Consoles -> SUBSET Evaluations] /\ raced' \subseteq Consoles
        /\ SeenExist' /\ ShownIsSelected'
    BY <1>1, <2>1, ChooseShows DEF IInv
  <2> QED
    BY <1>1, <2>1, <2>3 DEF IInv, TypeOK, rows
<1>7. ASSUME NEW e \in Evaluations, DetailArrives(r, e) PROVE TypeOK' /\ SeenExist' /\ ShownIsSelected'
  <2>1. /\ e \in loading[r] /\ UNCHANGED <<selected, fatalOnly, raced>>
        /\ detail' = [detail EXCEPT ![r] = DetailOf(e)]
        /\ loading' = [loading EXCEPT ![r] = @ \ {e}]
    BY <1>7 DEF DetailArrives
  <2>2. DetailOf(e) \in Details /\ DetailOf(e).of = e /\ DetailOf(e).fatal = fatal[e]
    BY DEF DetailOf, Details, EffectiveFatal, IInv, TypeOK
  <2>3. TypeOK'
    BY <1>1, <2>1, <2>2 DEF IInv, TypeOK, rows
  <2>4. SeenExist'
    BY <1>1, <2>1, <2>2 DEF IInv, TypeOK, SeenExist, Exists
  <2>5. ASSUME NEW c \in Consoles
        PROVE /\ detail'[c].fatal <=> (detail'[c].of # NoEval /\ fatal'[detail'[c].of])
              /\ c \notin raced' =>
                    IF loading'[c] = {} THEN selected'[c] \in {NoEval, detail'[c].of}
                    ELSE \E x \in loading'[c] : loading'[c] = {x} /\ selected'[c] \in {NoEval, x}
    <3>1. CASE c # r
      BY <1>1, <2>1, <3>1 DEF IInv, TypeOK, ShownIsSelected
    <3>2. CASE c = r
      <4>1. detail'[r] = DetailOf(e) /\ loading'[r] = loading[r] \ {e}
        BY <2>1 DEF IInv, TypeOK
      <4>2. r \notin raced => loading'[r] = {} /\ selected[r] \in {NoEval, e}
        BY <2>1, <4>1 DEF IInv, ShownIsSelected
      <4> QED
        BY <1>1, <2>1, <2>2, <3>2, <4>1, <4>2
    <3> QED
      BY <3>1, <3>2
  <2> QED
    BY <2>3, <2>4, <2>5 DEF ShownIsSelected
<1>8. CASE Resolve(r)
  <2>1. PICK standing \in BOOLEAN :
           /\ detail' = [detail EXCEPT ![r] = [of |-> @.of, fatal |-> TRUE, standing |-> standing]]
           /\ detail[r].fatal
           /\ UNCHANGED <<selected, fatalOnly, loading, raced>>
    BY <1>8 DEF Resolve
  <2>2. detail[r] \in Details
    BY <1>8 DEF Resolve, IInv, TypeOK, NoDetail
  <2>3. /\ detail' \in [Consoles -> Details \cup {NoDetail}]
        /\ \A c \in Consoles : detail'[c].of = detail[c].of /\ (detail'[c].fatal <=> detail[c].fatal)
    BY <2>1, <2>2 DEF IInv, TypeOK, Details
  <2>4. TypeOK'
    BY <1>1, <2>1, <2>3 DEF IInv, TypeOK, rows
  <2>5. SeenExist'
    BY <1>1, <2>1, <2>3 DEF IInv, SeenExist, Exists
  <2>6. ShownIsSelected'
    BY <1>1, <2>1, <2>3 DEF IInv, ShownIsSelected
  <2> QED
    BY <2>4, <2>5, <2>6
<1> QED
  BY <1>5, <1>6, <1>7, <1>8

\* Filing a review of an evaluation that exists, informed as its view says.
LEMMA FileKeeps ==
  ASSUME IInv, NEW r \in Reviewers, NEW e \in Evaluations, NEW s \in Scores,
         NEW resolution \in Resolutions, NEW view \in Views,
         File(r, e, s, resolution, view), Exists(e), view # "wrong",
         view = "its_own" /\ resolution = "none" => ~fatal[e],
         raced \subseteq raced', raced' \subseteq Consoles
  PROVE  IInv'
<1> DEFINE f == [of |-> e, score |-> s, resolution |-> resolution, view |-> view]
<1>1. /\ request' = [request EXCEPT ![r] = [at |-> "sent", filed |-> f]]
      /\ UNCHANGED rows /\ UNCHANGED <<selected, fatalOnly, detail, loading>>
      /\ UNCHANGED <<automatic, fatal, history>>
  BY DEF File, rows
<1>2. f \in Filed /\ f.of = e /\ f.resolution = resolution /\ f.view = view
  BY DEF Filed
<1> HIDE DEF f
<1>3. /\ [at |-> "sent", filed |-> f] \in Sent
      /\ request'[r].at = "sent" /\ request'[r].filed = f
      /\ \A q \in Reviewers : q # r => request'[q] = request[q]
  BY <1>1, <1>2 DEF Sent, IInv, TypeOK
<1>4. TypeOK'
  BY <1>1, <1>3 DEF IInv, TypeOK, rows
<1>5. HistoryIsAChain' /\ VerdictWasGiven' /\ UnracedIsInformed' /\ ReadIsGiven'
  BY <1>1, <1>3, RowsKept
<1>6. \A q \in Reviewers : UnderWay(q) => request[q].filed.of \in Evaluations
  BY RequestKinds DEF IInv, Filed
<1>7. FiledExist'
  BY <1>1, <1>2, <1>3, <1>6 DEF IInv, FiledExist, Exists, UnderWay
<1>8. FiledIsInformed'
  BY <1>1, <1>2, <1>3, <1>6 DEF IInv, FiledIsInformed, UnderWay
<1>9. SeenExist' /\ ShownIsSelected'
  BY <1>1 DEF IInv, SeenExist, ShownIsSelected, Exists
<1> QED
  BY <1>4, <1>5, <1>7, <1>8, <1>9 DEF IInv

LEMMA FileReviewKeeps ==
  ASSUME IInv, NEW r \in Consoles, NEW s \in Scores, FileReview(r, s)
  PROVE  IInv'
<1> USE ReviewAssumption
<1> DEFINE view == IF detail[r].of = selected[r] THEN "its_own"
                   ELSE IF r \in raced' THEN "raced" ELSE "wrong"
<1>1. /\ selected[r] # NoEval /\ selected[r] \in Evaluations
      /\ raced' = IF loading[r] # {} THEN raced \cup {r} ELSE raced
      /\ File(r, selected[r], s, ResolutionOf(detail[r]), view)
  BY DEF FileReview, IInv, TypeOK
<1>2. view \in Views /\ ResolutionOf(detail[r]) \in Resolutions
  BY DEF Views, Resolutions, ResolutionOf
<1>3. view # "wrong"
  <2>1. CASE r \in raced' \/ detail[r].of = selected[r]
    BY <2>1
  <2>2. CASE r \notin raced' /\ detail[r].of # selected[r]
    BY <1>1, <2>2 DEF IInv, ShownIsSelected
  <2> QED
    BY <2>1, <2>2
<1>4. view = "its_own" /\ ResolutionOf(detail[r]) = "none" => ~fatal[selected[r]]
  BY <1>1 DEF ResolutionOf, IInv, ShownIsSelected
<1>5. Exists(selected[r])
  BY <1>1 DEF IInv, SeenExist
<1>6. raced \subseteq raced' /\ raced' \subseteq Consoles
  BY <1>1 DEF IInv, TypeOK
<1> QED
  BY <1>1, <1>2, <1>3, <1>4, <1>5, <1>6, FileKeeps

LEMMA FileElsewhereKeeps ==
  ASSUME IInv, NEW r \in Reviewers, NEW e \in Evaluations, NEW s \in Scores, FileElsewhere(r, e, s)
  PROVE  IInv'
<1>1. PICK standing \in BOOLEAN :
         File(r, e, s, ResolutionOf([DetailOf(e) EXCEPT !.standing = standing]), "its_own")
  BY DEF FileElsewhere
<1> DEFINE d == [DetailOf(e) EXCEPT !.standing = standing]
<1>2. d.fatal <=> fatal[e]
  BY DEF DetailOf
<1> HIDE DEF d
<1>3. ResolutionOf(d) \in Resolutions /\ (ResolutionOf(d) = "none" => ~fatal[e])
  BY <1>2 DEF ResolutionOf, Resolutions
<1>4. Exists(e) /\ raced' = raced /\ raced \subseteq Consoles
  BY DEF FileElsewhere, IInv, TypeOK
<1>5. "its_own" \in Views /\ File(r, e, s, ResolutionOf(d), "its_own")
  BY <1>1 DEF Views, d
<1> QED
  BY <1>3, <1>4, <1>5, FileKeeps

LEMMA ReloadKeeps ==
  ASSUME IInv, NEW r \in Consoles, Reload(r)
  PROVE  IInv'
<1> USE ReviewAssumption
<1>0. r \in Reviewers
  OBVIOUS
<1>1. /\ request[r].at = "saved" /\ request' = [request EXCEPT ![r] = Idle]
      /\ UNCHANGED rows /\ UNCHANGED <<fatalOnly, detail>> /\ UNCHANGED <<automatic, fatal, history>>
  BY DEF Reload, rows
<1>2. /\ request'[r].at = "idle"
      /\ \A q \in Reviewers : q # r => request'[q] = request[q]
  BY <1>0, <1>1 DEF IInv, TypeOK, Idle
<1>3. PICK e \in MayChoose(r, Listed(fatalOnly[r])) :
         Choose(r, e, NewlyChosen(r, e) \cup {request[r].of})
  BY DEF Reload
<1>4. request[r].of \in Evaluations /\ Exists(request[r].of) /\ fatalOnly[r] \in BOOLEAN
  BY <1>0, <1>1, RequestKinds DEF IInv, FiledExist, TypeOK
<1>5. /\ e \in Evaluations \cup {NoEval} /\ (e # NoEval => Exists(e))
      /\ NewlyChosen(r, e) \subseteq Evaluations /\ \A x \in NewlyChosen(r, e) : Exists(x)
  BY <1>4, MayChooseListed DEF IInv
<1> DEFINE es == NewlyChosen(r, e) \cup {request[r].of}
<1>6. es \in SUBSET Evaluations /\ es # {} /\ \A x \in es : Exists(x)
  BY <1>4, <1>5
<1> HIDE DEF es
<1>7. /\ selected' \in [Consoles -> Evaluations \cup {NoEval}]
      /\ loading' \in [Consoles -> SUBSET Evaluations] /\ raced' \subseteq Consoles
      /\ SeenExist' /\ ShownIsSelected'
  <2>1. Choose(r, e, es)
    BY <1>3 DEF es
  <2> QED
    BY <1>1, <1>5, <1>6, <2>1, ChooseShows DEF IInv
<1>8. TypeOK'
  BY <1>0, <1>1, <1>7 DEF IInv, TypeOK, rows
<1>9. HistoryIsAChain' /\ VerdictWasGiven' /\ UnracedIsInformed' /\ ReadIsGiven'
  BY <1>1, <1>2, RowsKept
<1>10. \A q \in Reviewers : UnderWay(q) => request[q].filed.of \in Evaluations
  BY RequestKinds DEF IInv, Filed
<1>11. FiledExist' /\ FiledIsInformed'
  BY <1>1, <1>2, <1>10 DEF IInv, FiledExist, FiledIsInformed, Exists, UnderWay
<1> QED
  BY <1>7, <1>8, <1>9, <1>11 DEF IInv

LEMMA ReadEvaluationKeeps ==
  ASSUME IInv, NEW r \in Reviewers, ReadEvaluation(r)
  PROVE  IInv'
<1> USE ReviewAssumption
<1> DEFINE f == request[r].filed
           e == f.of
           q1 == [at |-> "read", filed |-> f, previous |-> EffectiveScore(e),
                  reviewed |-> reviewed[e], status |-> status[e]]
<1>1. /\ request[r].at = "sent" /\ UnderWay(r)
      /\ UNCHANGED <<automatic, fatal, reviewed, status, history, selected, fatalOnly,
                     detail, loading, raced>>
  BY DEF ReadEvaluation, UnderWay
<1>2. f \in Filed /\ e \in Evaluations /\ Exists(e)
  BY <1>1, RequestKinds DEF IInv, FiledExist, Filed
<1>3. \A q \in Reviewers : UnderWay(q) => request[q].filed.of \in Evaluations
  BY RequestKinds DEF IInv, Filed
<1>4. \/ request' = [request EXCEPT ![r] = Idle] /\ overlapped' = overlapped
      \/ /\ request' = [request EXCEPT ![r] = q1]
         /\ overlapped' = IF \E q \in Reviewers : InHand(q, e) THEN overlapped \cup {e} ELSE overlapped
  BY DEF ReadEvaluation
<1>5. SeenExist' /\ ShownIsSelected'
  BY <1>1 DEF IInv, SeenExist, ShownIsSelected, Exists
<1>6. CASE request' = [request EXCEPT ![r] = Idle] /\ overlapped' = overlapped
  <2>1. /\ request'[r].at = "idle" /\ \A q \in Reviewers : q # r => request'[q] = request[q]
    BY <1>6 DEF IInv, TypeOK, Idle
  <2>2. HistoryIsAChain' /\ VerdictWasGiven' /\ UnracedIsInformed' /\ ReadIsGiven'
    BY <1>1, <1>6, <2>1, RowsKept DEF rows
  <2>3. TypeOK'
    BY <1>1, <1>6 DEF IInv, TypeOK
  <2>4. FiledExist' /\ FiledIsInformed'
    BY <1>1, <1>3, <2>1 DEF IInv, FiledExist, FiledIsInformed, Exists, UnderWay
  <2> QED
    BY <1>5, <2>2, <2>3, <2>4 DEF IInv
<1>7. CASE /\ request' = [request EXCEPT ![r] = q1]
           /\ overlapped' = IF \E q \in Reviewers : InHand(q, e) THEN overlapped \cup {e} ELSE overlapped
  <2>1. /\ q1 \in Read /\ q1.at = "read" /\ q1.filed = f /\ q1.previous = EffectiveScore(e)
        /\ q1.reviewed = reviewed[e] /\ q1.status = status[e]
    BY <1>2 DEF Read, IInv, TypeOK, EffectiveScore, ScoreOrNone
  <2> HIDE DEF q1
  <2>2. /\ request'[r] = q1 /\ \A q \in Reviewers : q # r => request'[q] = request[q]
    BY <1>7 DEF IInv, TypeOK
  <2>3. TypeOK'
    BY <1>1, <1>2, <1>7, <2>1 DEF IInv, TypeOK
  <2>4. FiledExist' /\ FiledIsInformed'
    BY <1>1, <1>3, <2>1, <2>2 DEF IInv, FiledExist, FiledIsInformed, Exists, UnderWay
  <2>5. HistoryIsAChain' /\ VerdictWasGiven' /\ UnracedIsInformed'
    <3>1. overlapped \subseteq overlapped'
      BY <1>7
    <3> QED
      BY <1>1, <3>1 DEF IInv, HistoryIsAChain, VerdictWasGiven, UnracedIsInformed
  <2>6. \A q \in Reviewers, x \in Evaluations :
           InHand(q, x)' => \/ q = r /\ x = e
                            \/ q # r /\ InHand(q, x) /\ request'[q] = request[q]
    BY <2>1, <2>2 DEF InHand
  <2>7. EffectiveScore(e) = automatic[e] \/ \E i \in DOMAIN history[e] : EffectiveScore(e) = history[e][i].score
    BY <1>2 DEF EffectiveScore, IInv, VerdictWasGiven
  <2>8. ASSUME NEW q \in Reviewers, NEW x \in Evaluations, InHand(q, x)'
        PROVE  /\ \/ request'[q].previous = automatic'[x]
                  \/ \E i \in DOMAIN history'[x] : request'[q].previous = history'[x][i].score
               /\ x \notin overlapped' =>
                     /\ request'[q].previous = EffectiveScore(x)'
                     /\ request'[q].reviewed = reviewed'[x] /\ request'[q].status = status'[x]
                     /\ \A p \in Reviewers : InHand(p, x)' => p = q
    <3>1. EffectiveScore(x)' = EffectiveScore(x)
      BY <1>1 DEF EffectiveScore
    <3>2. CASE q = r /\ x = e
      <4>1. e \notin overlapped' => \A p \in Reviewers : ~InHand(p, e)
        BY <1>7
      <4> QED
        BY <1>1, <2>1, <2>2, <2>6, <2>7, <3>1, <3>2, <4>1
    <3>3. CASE q # r /\ InHand(q, x) /\ request'[q] = request[q]
      <4>1. x \notin overlapped' => x \notin overlapped /\ x # e
        BY <1>7, <3>3
      <4> QED
        BY <1>1, <2>6, <3>1, <3>3, <4>1 DEF IInv, ReadIsGiven
    <3> QED
      BY <2>6, <2>8, <3>2, <3>3
  <2> QED
    BY <1>5, <2>3, <2>4, <2>5, <2>8 DEF IInv, ReadIsGiven
<1> QED
  BY <1>4, <1>6, <1>7

\* What the commit of r's review does to its evaluation.
LEMMA SavedFacts ==
  ASSUME IInv, NEW r \in Reviewers, Saved(r), NEW f, f = request[r].filed, NEW e, e = f.of
  PROVE  /\ f \in Filed /\ e \in Evaluations /\ Exists(e)
         /\ InHand(r, e) /\ request[r].previous \in ScoreOrNone
         /\ f.view # "wrong" /\ (f.view = "its_own" /\ f.resolution = "none" => ~fatal[e])
         /\ UNCHANGED <<automatic, fatal, overlapped, selected, fatalOnly, detail, loading, raced>>
         /\ reviewed' = [reviewed EXCEPT ![e] = Written(f.score, request[r].reviewed, @)]
         /\ status' = [status EXCEPT ![e] = Written(NewStatus(f), request[r].status, @)]
         /\ history' = [history EXCEPT ![e] =
               Append(@, [previous |-> request[r].previous, score |-> f.score,
                          resolution |-> f.resolution, view |-> f.view])]
<1>1. request[r].at = "read" /\ UnderWay(r) /\ Verdict(r)
  BY DEF Saved, UnderWay
<1>2. f \in Filed /\ e \in Evaluations /\ request[r].previous \in ScoreOrNone
  BY <1>1, RequestKinds DEF IInv, Filed
<1>3. Exists(e) /\ f.view # "wrong" /\ (f.view = "its_own" /\ f.resolution = "none" => ~fatal[e])
  BY <1>1 DEF IInv, FiledExist, FiledIsInformed
<1>4. InHand(r, e)
  BY <1>1 DEF InHand
<1>5. UNCHANGED <<automatic, fatal, overlapped, selected, fatalOnly, detail, loading, raced>>
  BY DEF Saved
<1> QED
  BY <1>1, <1>2, <1>3, <1>4, <1>5 DEF Verdict

LEMMA SavedKeeps ==
  ASSUME IInv, NEW r \in Reviewers, Saved(r)
  PROVE  IInv'
<1>0. SUFFICES ASSUME NEW f, f = request[r].filed, NEW e, e = f.of,
                      NEW h, h = history[e], NEW n, n = Len(h), NEW g, g = history'[e],
                      NEW v, v = [previous |-> request[r].previous, score |-> f.score,
                                  resolution |-> f.resolution, view |-> f.view]
               PROVE  IInv'
  OBVIOUS
<1>1. /\ f \in Filed /\ e \in Evaluations /\ Exists(e)
      /\ InHand(r, e) /\ request[r].previous \in ScoreOrNone /\ f.view # "wrong"
      /\ UNCHANGED <<automatic, fatal, overlapped, selected, fatalOnly, detail, loading, raced>>
      /\ reviewed' = [reviewed EXCEPT ![e] = Written(f.score, request[r].reviewed, @)]
      /\ status' = [status EXCEPT ![e] = Written(NewStatus(f), request[r].status, @)]
      /\ history' = [history EXCEPT ![e] = Append(@, v)]
  BY <1>0, SavedFacts
<1>2. /\ v \in Reviews /\ v.previous = request[r].previous /\ v.score = f.score
      /\ v.view = f.view /\ NewStatus(v) = NewStatus(f)
      /\ f.score \in Scores /\ NewStatus(f) \in Statuses \ {"automatic"}
  BY <1>0, <1>1 DEF Reviews, Filed, NewStatus, Resolutions, Statuses
<1>3. h \in Seq(Reviews) /\ g = Append(h, v)
  BY <1>0, <1>1 DEF IInv, TypeOK
<1>n. n \in Nat
  BY <1>0, <1>3, LenProperties
<1> USE <1>n
<1>4. /\ DOMAIN h = 1 .. n /\ DOMAIN g = 1 .. n + 1 /\ (h = <<>> <=> n = 0)
      /\ \A i \in 1 .. n : g[i] = h[i]
      /\ g[n + 1] = v /\ g # <<>> /\ Len(g) = n + 1 /\ g \in Seq(Reviews)
  BY <1>0, <1>2, <1>3, Longer
<1>5. /\ reviewed'[e] = Written(f.score, request[r].reviewed, reviewed[e])
      /\ status'[e] = Written(NewStatus(f), request[r].status, status[e])
      /\ \A x \in Evaluations : x # e =>
            reviewed'[x] = reviewed[x] /\ status'[x] = status[x] /\ history'[x] = history[x]
  BY <1>1 DEF IInv, TypeOK
<1>a. \A q \in Reviewers : InHand(q, e) =>
         \/ request[q].previous = automatic[e]
         \/ \E i \in DOMAIN h : request[q].previous = h[i].score
  BY <1>0, <1>1 DEF IInv, ReadIsGiven
<1>b. /\ \A i \in DOMAIN h : \/ h[i].previous = automatic[e]
                           \/ \E j \in 1 .. i - 1 : h[i].previous = h[j].score
      /\ reviewed[e] # NoScore => \E i \in DOMAIN h : reviewed[e] = h[i].score
      /\ status[e] # "automatic" => \E i \in DOMAIN h : status[e] = NewStatus(h[i])
  BY <1>0, <1>1 DEF IInv, VerdictWasGiven
<1>6. /\ request' = [request EXCEPT ![r] =
             IF r \in Consoles THEN [at |-> "saved", of |-> e] ELSE Idle]
      /\ request'[r].at \in {"saved", "idle"} /\ (request'[r].at = "saved" => request'[r].of = e)
      /\ request'[r] \in {Idle} \cup Saving
      /\ \A q \in Reviewers : q # r => request'[q] = request[q]
  BY <1>0, <1>1 DEF Saved, Idle, Saving, IInv, TypeOK
<1>7. TypeOK'
  <2>1. /\ reviewed' \in [Evaluations -> ScoreOrNone] /\ status' \in [Evaluations -> Statuses]
        /\ history' \in [Evaluations -> Seq(Reviews)]
    BY <1>1, <1>2, <1>4 DEF IInv, TypeOK, Written, ScoreOrNone
  <2>2. request' \in [Reviewers -> {Idle} \cup Sent \cup Read \cup Saving]
    BY <1>6 DEF IInv, TypeOK
  <2> QED
    BY <1>1, <2>1, <2>2 DEF IInv, TypeOK
<1>8. SeenExist' /\ ShownIsSelected'
  BY <1>1 DEF IInv, SeenExist, ShownIsSelected, Exists
<1>9. \A q \in Reviewers : UnderWay(q) => request[q].filed.of \in Evaluations
  BY RequestKinds DEF IInv, Filed
<1>10. FiledExist' /\ FiledIsInformed'
  BY <1>1, <1>5, <1>6, <1>9 DEF IInv, FiledExist, FiledIsInformed, Exists, UnderWay
<1>11. UnracedIsInformed'
  BY <1>1, <1>2, <1>4, <1>5 DEF IInv, UnracedIsInformed
<1>12. ASSUME e \notin overlapped
       PROVE  /\ \A i \in 1 .. n + 1 : g[i].previous = IF i = 1 THEN automatic[e] ELSE g[i - 1].score
              /\ reviewed'[e] = g[n + 1].score /\ status'[e] = NewStatus(g[n + 1])
  <2>1. /\ request[r].previous = EffectiveScore(e) /\ request[r].reviewed = reviewed[e]
        /\ request[r].status = status[e]
    BY <1>1, <1>12 DEF IInv, ReadIsGiven
  <2>2. /\ \A i \in 1 .. n : h[i].previous = IF i = 1 THEN automatic[e] ELSE h[i - 1].score
        /\ IF n = 0 THEN reviewed[e] = NoScore ELSE reviewed[e] = h[n].score
    <3>1. /\ \A i \in DOMAIN history[e] :
                history[e][i].previous
                    = IF i = 1 THEN automatic[e] ELSE history[e][i - 1].score
          /\ IF history[e] = <<>> THEN reviewed[e] = NoScore
             ELSE reviewed[e] = history[e][Len(history[e])].score
      <4>1. e \in Evaluations \ overlapped
        BY <1>1, <1>12
      <4> QED
        BY <4>1 DEF IInv, HistoryIsAChain
    <3>2. h = history[e] /\ n = Len(history[e])
      BY <1>0
    <3>3. DOMAIN history[e] = 1 .. n /\ (history[e] = <<>> <=> n = 0)
      BY <1>4, <3>2
    <3>4. \A i \in 1 .. n : h[i].previous = IF i = 1 THEN automatic[e] ELSE h[i - 1].score
      <4>1. \A i : h[i] = history[e][i]
        BY <3>2
      <4> QED
        BY <3>1, <3>3, <4>1
    <3> QED
      BY <3>1, <3>2, <3>3, <3>4
  <2>3. \A i \in 1 .. n : h[i] \in Reviews /\ h[i].score \in Scores
    <3>1. \A i \in 1 .. n : h[i] \in Reviews
      BY <1>3, <1>4, ElementOfSeq
    <3> QED
      BY <3>1 DEF Reviews
  <2>4. request[r].previous = IF n = 0 THEN automatic[e] ELSE h[n].score
    BY ReviewAssumption, <1>4, <2>1, <2>2, <2>3 DEF EffectiveScore
  <2>5. ASSUME NEW i \in 1 .. n + 1
        PROVE  g[i].previous = IF i = 1 THEN automatic[e] ELSE g[i - 1].score
    <3>1. CASE i \in 1 .. n
      <4>1. i # 1 => i - 1 \in 1 .. n
        BY <1>4, <3>1
      <4> QED
        BY <1>4, <2>2, <3>1, <4>1
    <3>2. CASE i = n + 1
      <4>1. g[i].previous = request[r].previous
        BY <1>2, <1>4, <3>2
      <4>2. CASE n = 0
        BY <2>4, <3>2, <4>1, <4>2
      <4>3. CASE n # 0
        <5>1. i # 1 /\ i - 1 = n /\ n \in 1 .. n
          BY <1>4, <3>2, <4>3
        <5> QED
          BY <1>4, <2>4, <4>1, <4>3, <5>1
      <4> QED
        BY <4>2, <4>3
    <3> QED
      BY <1>4, <3>1, <3>2
  <2>6. reviewed'[e] = f.score /\ status'[e] = NewStatus(f)
    BY <1>5, <2>1 DEF Written
  <2> QED
    BY <1>2, <1>4, <2>5, <2>6
<1>13. HistoryIsAChain'
  <2>1. overlapped' = overlapped /\ automatic' = automatic
    BY <1>1
  <2>2. ASSUME NEW x \in Evaluations \ overlapped'
        PROVE  /\ \A i \in DOMAIN history'[x] :
                     history'[x][i].previous = IF i = 1 THEN automatic'[x] ELSE history'[x][i - 1].score
               /\ IF history'[x] = <<>> THEN reviewed'[x] = NoScore /\ status'[x] = "automatic"
                  ELSE /\ reviewed'[x] = history'[x][Len(history'[x])].score
                       /\ status'[x] = NewStatus(history'[x][Len(history'[x])])
    <3>1. CASE x = e
      <4>1. history'[x] = g /\ DOMAIN g = 1 .. n + 1 /\ Len(g) = n + 1 /\ g # <<>> /\ e \notin overlapped
        BY <1>0, <1>4, <2>1, <3>1
      <4> QED
        BY <1>12, <2>1, <3>1, <4>1
    <3>2. CASE x # e
      BY <1>5, <2>1, <3>2 DEF IInv, HistoryIsAChain
    <3> QED
      BY <3>1, <3>2
  <2> QED
    BY <2>2 DEF HistoryIsAChain
<1>14. VerdictWasGiven'
  <2>1. \A i \in 1 .. n : i \in 1 .. n + 1 /\ g[i].score = h[i].score
                         /\ g[i].previous = h[i].previous /\ NewStatus(g[i]) = NewStatus(h[i])
    BY <1>4
  <2>2. n + 1 \in 1 .. n + 1 /\ g[n + 1].previous = request[r].previous
        /\ g[n + 1].score = f.score /\ NewStatus(g[n + 1]) = NewStatus(f)
    BY <1>2, <1>4
  <2>3. ASSUME NEW i \in 1 .. n + 1
        PROVE  g[i].previous = automatic[e] \/ \E j \in 1 .. i - 1 : g[i].previous = g[j].score
    <3>1. CASE i \in 1 .. n
      <4>1. h[i].previous = automatic[e] \/ \E j \in 1 .. i - 1 : h[i].previous = h[j].score
        BY <1>4, <1>b, <3>1
      <4>2. \A j \in 1 .. i - 1 : j \in 1 .. n
        BY <1>4, <3>1
      <4> QED
        BY <2>1, <3>1, <4>1, <4>2
    <3>2. CASE i = n + 1
      <4>1. request[r].previous = automatic[e] \/ \E j \in 1 .. n : request[r].previous = h[j].score
        BY <1>1, <1>4, <1>a
      <4>2. i - 1 = n
        BY <1>4, <3>2
      <4> QED
        BY <2>1, <2>2, <3>2, <4>1, <4>2
    <3> QED
      BY <1>4, <3>1, <3>2
  <2>4. reviewed'[e] # NoScore => \E i \in 1 .. n + 1 : reviewed'[e] = g[i].score
    <3>1. reviewed[e] # NoScore => \E i \in 1 .. n : reviewed[e] = h[i].score
      BY <1>4, <1>b
    <3>2. reviewed'[e] \in {f.score, reviewed[e]}
      BY <1>5 DEF Written
    <3> QED
      BY <2>1, <2>2, <3>1, <3>2
  <2>5. status'[e] # "automatic" => \E i \in 1 .. n + 1 : status'[e] = NewStatus(g[i])
    <3>1. status[e] # "automatic" => \E i \in 1 .. n : status[e] = NewStatus(h[i])
      BY <1>4, <1>b
    <3>2. status'[e] \in {NewStatus(f), status[e]}
      BY <1>5 DEF Written
    <3> QED
      BY <2>1, <2>2, <3>1, <3>2
  <2>6. automatic' = automatic
    BY <1>1
  <2>7. ASSUME NEW x \in Evaluations
        PROVE  /\ \A i \in DOMAIN history'[x] :
                     \/ history'[x][i].previous = automatic'[x]
                     \/ \E j \in 1 .. i - 1 : history'[x][i].previous = history'[x][j].score
               /\ reviewed'[x] # NoScore => \E i \in DOMAIN history'[x] : reviewed'[x] = history'[x][i].score
               /\ status'[x] # "automatic" =>
                     \E i \in DOMAIN history'[x] : status'[x] = NewStatus(history'[x][i])
    <3>1. CASE x = e
      <4>1. history'[x] = g /\ DOMAIN g = 1 .. n + 1
        BY <1>0, <1>4, <3>1
      <4> QED
        BY <2>3, <2>4, <2>5, <2>6, <3>1, <4>1
    <3>2. CASE x # e
      BY <1>5, <2>6, <3>2 DEF IInv, VerdictWasGiven
    <3> QED
      BY <3>1, <3>2
  <2> QED
    BY <2>7 DEF VerdictWasGiven
<1>15. ReadIsGiven'
  <2>1. \A q \in Reviewers, x \in Evaluations : InHand(q, x)' => q # r /\ InHand(q, x) /\ request'[q] = request[q]
    BY <1>6 DEF InHand
  <2>2. \A q \in Reviewers : InHand(q, e) /\ q # r => e \in overlapped
    BY <1>1 DEF IInv, ReadIsGiven
  <2>3. ASSUME NEW q \in Reviewers, InHand(q, e)'
        PROVE  \/ request'[q].previous = automatic'[e]
               \/ \E i \in DOMAIN g : request'[q].previous = g[i].score
    <3>1. request[q].previous = automatic[e] \/ \E i \in DOMAIN h : request[q].previous = h[i].score
      BY <1>1, <1>a, <2>1, <2>3, Zenon
    <3> QED
      BY <1>1, <1>4, <2>1, <2>3, <3>1
  <2>4. \A x \in Evaluations : x # e => EffectiveScore(x)' = EffectiveScore(x)
    BY <1>1, <1>5 DEF EffectiveScore
  <2> QED
    BY <1>1, <1>5, <2>1, <2>2, <2>3, <2>4 DEF IInv, ReadIsGiven
<1> QED
  BY <1>7, <1>8, <1>10, <1>11, <1>13, <1>14, <1>15 DEF IInv

THEOREM NextIInv == IInv /\ [Next]_vars => IInv'
<1> SUFFICES ASSUME IInv, [Next]_vars PROVE IInv'
  OBVIOUS
<1>1. ASSUME NEW e \in Evaluations, NEW s \in Scores, NEW f \in BOOLEAN, Evaluate(e, s, f) PROVE IInv'
  BY <1>1, EvaluateKeeps
<1>2. ASSUME NEW r \in Reviewers, ReadEvaluation(r) \/ Saved(r) PROVE IInv'
  BY <1>2, ReadEvaluationKeeps, SavedKeeps
<1>3. ASSUME NEW r \in Reviewers \ Consoles, NEW e \in Evaluations, NEW s \in Scores,
             FileElsewhere(r, e, s)
      PROVE  IInv'
  BY <1>3, FileElsewhereKeeps
<1>4. ASSUME NEW r \in Consoles, \E s \in Scores : FileReview(r, s) PROVE IInv'
  BY <1>4, FileReviewKeeps
<1>5. ASSUME NEW r \in Consoles,
             \/ \E only \in BOOLEAN : List(r, only)
             \/ \E e \in Evaluations : Select(r, e) \/ DetailArrives(r, e)
             \/ Resolve(r)
      PROVE  IInv'
  BY <1>5, BrowsingKeeps
<1>6. ASSUME NEW r \in Consoles, Reload(r) PROVE IInv'
  BY <1>6, ReloadKeeps
<1>7. CASE UNCHANGED vars
  <2>1. UNCHANGED rows /\ UNCHANGED consoles
    BY <1>7 DEF vars
  <2>2. UNCHANGED <<selected, fatalOnly, detail, loading, request, raced, automatic, fatal, history>>
    BY <2>1 DEF rows, consoles
  <2>3. TypeOK'
    BY <2>1, <2>2 DEF IInv, rows, TypeOK
  <2>4. SeenExist'
    BY <2>2 DEF IInv, SeenExist, Exists
  <2>5. ShownIsSelected'
    BY <2>2 DEF IInv, ShownIsSelected
  <2> QED
    BY <2>1, <2>2, <2>3, <2>4, <2>5, RowsKept, RequestsKept DEF IInv
<1> QED
  BY <1>1, <1>2, <1>3, <1>4, <1>5, <1>6, <1>7 DEF Next

\* The inductive invariant, type correctness included.
THEOREM IInvHolds == Spec => []IInv
  BY InitIInv, NextIInv, PTL DEF Spec

\* The reviews of an evaluation that did not overlap lead, one from the other,
\* from the automatic score to the verdict in force.
THEOREM ReviewsChain == Spec => []HistoryIsAChain
  BY IInvHolds, PTL DEF IInv

\* However reviews overlap, every score and finding in force was given by one, and
\* every score a review claims to replace had been in force.
THEOREM VerdictsAreGiven == Spec => []VerdictWasGiven
  BY IInvHolds, PTL DEF IInv

\* A console whose details did not race files each review about what it shows.
THEOREM ReviewersAreInformed == Spec => []UnracedIsInformed
  BY IInvHolds, PTL DEF IInv

\* A step that leaves an evaluation's finding and status alone leaves what stands of
\* the finding; only a commit changes either once the evaluation exists.
LEMMA FindingsKept ==
  ASSUME NEW e \in Evaluations, fatal'[e] = fatal[e], status'[e] = status[e]
  PROVE  EffectiveFatal(e)' <=> EffectiveFatal(e)
  BY DEF EffectiveFatal

\* App.tsx:131: a fatal finding falls, or stands again, only by the resolution of
\* a review.
THEOREM FindingsChangeExplicitly == Spec => FatalChangesExplicitly
<1> DEFINE A == \A e \in Evaluations :
                   Exists(e) /\ EffectiveFatal(e)' # EffectiveFatal(e) =>
                       LET h == history'[e][Len(history'[e])]
                       IN h.view = "its_own" =>
                              h.resolution = IF EffectiveFatal(e)' THEN "confirmed" ELSE "cleared"
<1>1. IInv /\ [Next]_vars => [A]_vars
  <2> SUFFICES ASSUME IInv, Next, NEW e \in Evaluations, Exists(e),
                      EffectiveFatal(e)' # EffectiveFatal(e)
               PROVE  LET h == history'[e][Len(history'[e])]
                      IN h.view = "its_own" =>
                             h.resolution = IF EffectiveFatal(e)' THEN "confirmed" ELSE "cleared"
    OBVIOUS
  <2>0. ~(EffectiveFatal(e)' <=> EffectiveFatal(e))
    BY DEF EffectiveFatal
  <2>1. PICK r \in Reviewers : Saved(r)
    <3>1. ASSUME NEW x \in Evaluations, NEW s \in Scores, NEW f \in BOOLEAN, Evaluate(x, s, f)
          PROVE  fatal'[e] = fatal[e] /\ status'[e] = status[e]
      BY <3>1 DEF Evaluate, Exists, IInv, TypeOK
    <3>2. ASSUME ~\E r \in Reviewers : Saved(r),
                 ~\E x \in Evaluations, s \in Scores, f \in BOOLEAN : Evaluate(x, s, f)
          PROVE  fatal' = fatal /\ status' = status
      BY <3>2, ReviewAssumption
         DEF Next, ReadEvaluation, FileElsewhere, FileReview, File, List, Select, DetailArrives,
             Resolve, Reload, rows
    <3> QED
      BY <2>0, <3>1, <3>2, FindingsKept, Zenon
  <2>2. PICK f \in Filed, x \in Evaluations :
           /\ x = f.of /\ (f.view = "its_own" /\ f.resolution = "none" => ~fatal[x])
           /\ fatal' = fatal
           /\ status' = [status EXCEPT ![x] = Written(NewStatus(f), request[r].status, @)]
           /\ history' = [history EXCEPT ![x] =
                 Append(@, [previous |-> request[r].previous, score |-> f.score,
                            resolution |-> f.resolution, view |-> f.view])]
           /\ request[r].previous \in ScoreOrNone
    BY <2>1, SavedFacts
  <2>3. e = x
    BY <2>0, <2>2, FindingsKept DEF IInv, TypeOK
  <2> DEFINE v == [previous |-> request[r].previous, score |-> f.score,
                   resolution |-> f.resolution, view |-> f.view]
  <2>4. v \in Reviews /\ v.view = f.view /\ v.resolution = f.resolution
    BY <2>2 DEF Reviews, Filed
  <2>5. history[e] \in Seq(Reviews) /\ history'[e] = Append(history[e], v)
    BY <2>2, <2>3 DEF IInv, TypeOK
  <2> HIDE DEF v
  <2>6. history'[e][Len(history'[e])] = v
    BY <2>4, <2>5, Longer
  <2>7. fatal[e] /\ status'[e] # status[e] /\ status'[e] = NewStatus(f)
    BY <2>0, <2>2, <2>3 DEF EffectiveFatal, Written, IInv, TypeOK
  <2>8. f.view = "its_own" => f.resolution \in {"confirmed", "cleared"} /\ status'[e] = f.resolution
    BY <2>2, <2>3, <2>7 DEF NewStatus, Filed, Resolutions
  <2>9. EffectiveFatal(e)' <=> status'[e] # "cleared"
    BY <2>2, <2>7 DEF EffectiveFatal
  <2> QED
    BY <2>4, <2>6, <2>8, <2>9
<1> QED
  BY <1>1, IInvHolds, PTL DEF Spec, FatalChangesExplicitly
=============================================================================
