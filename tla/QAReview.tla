------------------------------- MODULE QAReview -------------------------------
(***************************************************************************)
(* Automatic QA evaluations and the reviews that override them:            *)
(* services/platform-api/app/main.py and QualityView of                    *)
(* apps/console/src/App.tsx.                                               *)
(*                                                                         *)
(* The review endpoint runs in a thread: what it read of the evaluation    *)
(* may be old when it commits, and the commit updates only the columns     *)
(* whose value differs from what was read.  The console files a review     *)
(* under the evaluation that is selected, with the fatal finding of the    *)
(* detail that is shown; the two are loaded apart.                         *)
(***************************************************************************)
EXTENDS Naturals, Sequences, FiniteSets, Functions

CONSTANTS Evaluations, \* rows of qa_evaluations, one per conversation and form
          Reviewers,   \* those who file reviews, one at a time each
          Consoles,    \* those of them whose console is modelled; the others are
                       \* taken to see the evaluation they review
          Scores,
          NoScore,     \* reviewed_score is null; no row yet
          NoEval,      \* nothing selected, or no detail shown
          MaxReviews   \* reviews ever filed (a bound)

ASSUME ReviewAssumption ==
    /\ NoScore \notin Scores
    /\ NoEval \notin Evaluations
    /\ Consoles \subseteq Reviewers

VARIABLES
    automatic, \* QAEvaluation.automatic_score
    fatal,     \* QAEvaluation.fatal_triggered
    reviewed,  \* QAEvaluation.reviewed_score
    status,    \* QAEvaluation.status
    history,   \* qa_reviews of an evaluation with the audited resolution, oldest first
    overlapped,\* evaluations that had two reviews under way at once (history)
    selected,  \* per console: the evaluation chosen in the list
    fatalOnly, \* per console: the list's filter
    detail,    \* per console: the evaluation shown, and its fatal finding
    loading,   \* per console: details asked for and not yet shown
    request,   \* per console: the review being saved
    raced      \* consoles that awaited a detail that was not the selected one's, or
               \* filed a review while one was (history)

rows == <<automatic, fatal, reviewed, status, history, overlapped>>
consoles == <<selected, fatalOnly, detail, loading, request, raced>>
vars == <<rows, consoles>>

Resolutions == {"none", "confirmed", "cleared"}
Statuses == {"automatic", "reviewed", "confirmed", "cleared"}
Details == [of : Evaluations, fatal : BOOLEAN, standing : BOOLEAN]
NoDetail == [of |-> NoEval, fatal |-> FALSE, standing |-> FALSE]
ScoreOrNone == Scores \cup {NoScore}

\* A review as it is filed.  Its view says (history) whether the detail on the
\* screen was that of the evaluation it is filed under, and if not, whether
\* details raced on that console.
Views == {"its_own", "raced", "wrong"}
Filed == [of : Evaluations, score : Scores, resolution : Resolutions, view : Views]
Idle == [at |-> "idle"]
Sent == [at : {"sent"}, filed : Filed]
Read == [at : {"read"}, filed : Filed, previous : ScoreOrNone,
         reviewed : ScoreOrNone, status : Statuses]
Saving == [at : {"saved"}, of : Evaluations]
Reviews == [previous : ScoreOrNone, score : Scores, resolution : Resolutions, view : Views]

TypeOK ==
    /\ automatic \in [Evaluations -> ScoreOrNone]
    /\ fatal \in [Evaluations -> BOOLEAN]
    /\ reviewed \in [Evaluations -> ScoreOrNone]
    /\ status \in [Evaluations -> Statuses]
    /\ history \in [Evaluations -> Seq(Reviews)]
    /\ overlapped \subseteq Evaluations
    /\ selected \in [Consoles -> Evaluations \cup {NoEval}]
    /\ fatalOnly \in [Consoles -> BOOLEAN]
    /\ detail \in [Consoles -> Details \cup {NoDetail}]
    /\ loading \in [Consoles -> SUBSET Evaluations]
    /\ request \in [Reviewers -> {Idle} \cup Sent \cup Read \cup Saving]
    /\ raced \subseteq Consoles

Init ==
    /\ automatic = [e \in Evaluations |-> NoScore]
    /\ fatal = [e \in Evaluations |-> FALSE]
    /\ reviewed = [e \in Evaluations |-> NoScore]
    /\ status = [e \in Evaluations |-> "automatic"]
    /\ history = [e \in Evaluations |-> <<>>]
    /\ overlapped = {}
    /\ selected = [r \in Consoles |-> NoEval]
    /\ fatalOnly = [r \in Consoles |-> FALSE]
    /\ detail = [r \in Consoles |-> NoDetail]
    /\ loading = [r \in Consoles |-> {}]
    /\ request = [r \in Reviewers |-> Idle]
    /\ raced = {}

Exists(e) == automatic[e] # NoScore

EffectiveFatal(e) == fatal[e] /\ status[e] # "cleared"

\* Mutant: the score before the first review is always the previous one.
EffectiveIsAutomatic(e) == automatic[e]

EffectiveScore(e) == IF reviewed[e] # NoScore THEN reviewed[e] ELSE automatic[e]

-----------------------------------------------------------------------------
(* The rows. *)

\* create_qa_evaluation, or the worker's own; the unique key lets one through.
Evaluate(e, s, f) ==
    /\ ~Exists(e)
    /\ automatic' = [automatic EXCEPT ![e] = s]
    /\ fatal' = [fatal EXCEPT ![e] = f]
    /\ UNCHANGED <<reviewed, status, history, overlapped, consoles>>

\* r's review is filed and not yet committed.
UnderWay(r) == request[r].at \in {"sent", "read"}

\* r's request is at the database.
InHand(r, e) == request[r].at = "read" /\ request[r].filed.of = e

\* review_qa_evaluation reads the evaluation; a finding that was not triggered
\* cannot be resolved.
ReadEvaluation(r) ==
    /\ request[r].at = "sent"
    /\ LET f == request[r].filed
           e == f.of
       IN IF f.resolution # "none" /\ ~fatal[e]
          THEN /\ request' = [request EXCEPT ![r] = Idle]
               /\ UNCHANGED overlapped
          ELSE /\ request' = [request EXCEPT ![r] =
                     [at |-> "read", filed |-> f, previous |-> EffectiveScore(e),
                      reviewed |-> reviewed[e], status |-> status[e]]]
               /\ overlapped' = IF \E q \in Reviewers : InHand(q, e)
                                THEN overlapped \cup {e} ELSE overlapped
    /\ UNCHANGED <<automatic, fatal, reviewed, status, history, selected, fatalOnly,
                   detail, loading, raced>>

NewStatus(f) == IF f.resolution = "none" THEN "reviewed" ELSE f.resolution

\* A column is written if its new value is not the one that was read.
Written(new, read, now) == IF new = read THEN now ELSE new

\* Mutant: the verdict is committed without the review that gave it.
VerdictUnrecorded(r) ==
    LET q == request[r]
        e == q.filed.of
    IN /\ reviewed' = [reviewed EXCEPT ![e] = Written(q.filed.score, q.reviewed, @)]
       /\ status' = [status EXCEPT ![e] = Written(NewStatus(q.filed), q.status, @)]
       /\ UNCHANGED history

\* The review and the verdict are committed together.
Verdict(r) ==
    LET q == request[r]
        e == q.filed.of
    IN /\ reviewed' = [reviewed EXCEPT ![e] = Written(q.filed.score, q.reviewed, @)]
       /\ status' = [status EXCEPT ![e] = Written(NewStatus(q.filed), q.status, @)]
       /\ history' = [history EXCEPT ![e] =
             Append(@, [previous |-> q.previous, score |-> q.filed.score,
                        resolution |-> q.filed.resolution, view |-> q.filed.view])]

-----------------------------------------------------------------------------
(* The console. *)

\* list_qa_evaluations, of those created so far.
Listed(only) == {e \in Evaluations : Exists(e) /\ (only => EffectiveFatal(e))}

\* load: the selection stays while it is listed, else the list's first row takes
\* its place; whatever is newly selected is asked for.
MayChoose(r, listed) ==
    IF selected[r] \in listed THEN {selected[r]}
    ELSE IF listed = {} THEN {NoEval} ELSE listed

\* Mutant: a selection the list has moved is not loaded.
NoneChosen(r, e) == {}

NewlyChosen(r, e) == {e} \ {selected[r], NoEval}

\* r now has e selected and asks for the details of es.
Choose(r, e, es) ==
    /\ selected' = [selected EXCEPT ![r] = e]
    /\ loading' = [loading EXCEPT ![r] = @ \cup es]
    /\ raced' = IF es # {} /\ loading'[r] # {e} THEN raced \cup {r} ELSE raced

\* The page opens, or the filter is changed (not while a review is being saved).
List(r, only) ==
    /\ request[r] = Idle
    /\ fatalOnly' = [fatalOnly EXCEPT ![r] = only]
    /\ \E e \in MayChoose(r, Listed(only)) : Choose(r, e, NewlyChosen(r, e))
    /\ UNCHANGED <<rows, detail, request>>

\* A row of the list is clicked.
Select(r, e) ==
    /\ Exists(e) /\ selected[r] # e
    /\ Choose(r, e, {e})
    /\ UNCHANGED <<rows, fatalOnly, detail, request>>

\* qa_evaluation_detail.
DetailOf(e) == [of |-> e, fatal |-> fatal[e], standing |-> EffectiveFatal(e)]

\* A detail is shown when it arrives, whatever is selected by then.
DetailArrives(r, e) ==
    /\ e \in loading[r]
    /\ detail' = [detail EXCEPT ![r] = DetailOf(e)]
    /\ loading' = [loading EXCEPT ![r] = @ \ {e}]
    /\ UNCHANGED <<rows, selected, fatalOnly, request, raced>>

\* The reviewer chooses the resolution of a triggered finding.
Resolve(r) ==
    /\ detail[r].fatal
    /\ \E standing \in BOOLEAN :
          detail' = [detail EXCEPT ![r] = [of |-> @.of, fatal |-> TRUE, standing |-> standing]]
    /\ UNCHANGED <<rows, selected, fatalOnly, loading, request, raced>>

\* Mutant: only a clearance is sent.
ClearanceOnly(d) == IF d.fatal /\ ~d.standing THEN "cleared" ELSE "none"

\* What review() sends of the detail on the screen.
ResolutionOf(d) ==
    IF ~d.fatal THEN "none" ELSE IF d.standing THEN "confirmed" ELSE "cleared"

Filings == SumFunction([e \in Evaluations |-> Len(history[e])])
             + Cardinality({r \in Reviewers : UnderWay(r)})

File(r, e, s, resolution, view) ==
    /\ request[r] = Idle
    /\ Filings < MaxReviews
    /\ request' = [request EXCEPT ![r] = [at |-> "sent", filed |->
           [of |-> e, score |-> s, resolution |-> resolution, view |-> view]]]
    /\ UNCHANGED <<rows, selected, fatalOnly, detail, loading>>

\* Save review, under the evaluation that is selected.  (A second press while
\* one is being saved is like another reviewer's.)
FileReview(r, s) ==
    /\ selected[r] # NoEval
    /\ raced' = IF loading[r] # {} THEN raced \cup {r} ELSE raced
    /\ File(r, selected[r], s, ResolutionOf(detail[r]),
            IF detail[r].of = selected[r] THEN "its_own"
            ELSE IF r \in raced' THEN "raced" ELSE "wrong")

\* The same at a console that shows what it has selected, the finding turned
\* either way.
FileElsewhere(r, e, s) ==
    /\ Exists(e)
    /\ \E standing \in BOOLEAN :
          File(r, e, s, ResolutionOf([DetailOf(e) EXCEPT !.standing = standing]), "its_own")
    /\ UNCHANGED raced

Saved(r) ==
    /\ request[r].at = "read"
    /\ Verdict(r)
    /\ request' = [request EXCEPT ![r] =
           IF r \in Consoles THEN [at |-> "saved", of |-> @.filed.of] ELSE Idle]
    /\ UNCHANGED <<automatic, fatal, overlapped, selected, fatalOnly, detail, loading, raced>>

\* review() goes on: it lists anew, which may move the
\* selection, and asks for the detail of the evaluation it was filed under.
Reload(r) ==
    /\ request[r].at = "saved"
    /\ request' = [request EXCEPT ![r] = Idle]
    /\ \E e \in MayChoose(r, Listed(fatalOnly[r])) :
          Choose(r, e, NewlyChosen(r, e) \cup {request[r].of})
    /\ UNCHANGED <<rows, fatalOnly, detail>>

Next ==
    \/ \E e \in Evaluations, s \in Scores, f \in BOOLEAN : Evaluate(e, s, f)
    \/ \E r \in Reviewers : ReadEvaluation(r) \/ Saved(r)
    \/ \E r \in Reviewers \ Consoles, e \in Evaluations, s \in Scores : FileElsewhere(r, e, s)
    \/ \E r \in Consoles :
          \/ \E only \in BOOLEAN : List(r, only)
          \/ \E e \in Evaluations : Select(r, e) \/ DetailArrives(r, e)
          \/ \E s \in Scores : FileReview(r, s)
          \/ Resolve(r) \/ Reload(r)

Spec == Init /\ [][Next]_vars

-----------------------------------------------------------------------------
(* Properties. *)

\* Reviews that did not overlap form one chain from the automatic score to the
\* verdict in force: each replaces what the one before it gave, and the last
\* one's score and finding are what the evaluation shows.
HistoryIsAChain ==
    \A e \in Evaluations \ overlapped :
        LET h == history[e]
        IN /\ \A i \in DOMAIN h :
                 h[i].previous = IF i = 1 THEN automatic[e] ELSE h[i - 1].score
           /\ IF h = <<>> THEN reviewed[e] = NoScore /\ status[e] = "automatic"
              ELSE /\ reviewed[e] = h[Len(h)].score
                   /\ status[e] = NewStatus(h[Len(h)])

\* Even of reviews that overlap, each names as previous a score that was in
\* force: the automatic one or an earlier review's; and the evaluation shows
\* only a score and a finding that reviews gave.
VerdictWasGiven ==
    \A e \in Evaluations :
        LET h == history[e]
        IN /\ \A i \in DOMAIN h :
                 \/ h[i].previous = automatic[e]
                 \/ \E j \in 1 .. i - 1 : h[i].previous = h[j].score
           /\ reviewed[e] # NoScore => \E i \in DOMAIN h : reviewed[e] = h[i].score
           /\ status[e] # "automatic" => \E i \in DOMAIN h : status[e] = NewStatus(h[i])

\* A console whose details did not race files each review about the evaluation
\* on its screen.
UnracedIsInformed ==
    \A e \in Evaluations : \A i \in DOMAIN history[e] : history[e][i].view # "wrong"

\* App.tsx:131, "reviewers resolve fatal findings explicitly": a fatal finding
\* falls only by a review that clears it, and stands again only by one that
\* confirms it, as far as reviewers see what they review.
FatalChangesExplicitly ==
    [][\A e \in Evaluations :
          Exists(e) /\ EffectiveFatal(e)' # EffectiveFatal(e) =>
              LET h == history'[e][Len(history'[e])]
              IN h.view = "its_own" =>
                     h.resolution = IF EffectiveFatal(e)' THEN "confirmed" ELSE "cleared"]_vars

\* What the proofs carry from step to step.  All that a console selects, shows or
\* asks for exists.
SeenExist ==
    \A r \in Consoles :
        /\ selected[r] # NoEval => Exists(selected[r])
        /\ detail[r].of # NoEval => Exists(detail[r].of)
        /\ \A e \in loading[r] : Exists(e)

\* All that a review is filed for, or was, exists.
FiledExist ==
    /\ \A e \in Evaluations : history[e] # <<>> => Exists(e)
    /\ \A r \in Reviewers :
          /\ UnderWay(r) => Exists(request[r].filed.of)
          /\ request[r].at = "saved" => Exists(request[r].of)

\* What a request has read is what reviews gave; and the only request in hand for
\* an evaluation has read what still stands.
ReadIsGiven ==
    \A r \in Reviewers, e \in Evaluations : InHand(r, e) =>
        /\ \/ request[r].previous = automatic[e]
           \/ \E i \in DOMAIN history[e] : request[r].previous = history[e][i].score
        /\ e \notin overlapped =>
              /\ request[r].previous = EffectiveScore(e)
              /\ request[r].reviewed = reviewed[e] /\ request[r].status = status[e]
              /\ \A q \in Reviewers : InHand(q, e) => q = r

\* A console whose details did not race awaits the detail of its selection, or
\* shows it; and what a console shows of a finding is so.
ShownIsSelected ==
    \A r \in Consoles :
        /\ detail[r].fatal <=> (detail[r].of # NoEval /\ fatal[detail[r].of])
        /\ r \notin raced =>
              IF loading[r] = {} THEN selected[r] \in {NoEval, detail[r].of}
              ELSE \E e \in loading[r] : loading[r] = {e} /\ selected[r] \in {NoEval, e}

FiledIsInformed ==
    \A r \in Reviewers : UnderWay(r) =>
        LET f == request[r].filed
        IN /\ f.view # "wrong"
           /\ f.view = "its_own" /\ f.resolution = "none" => ~fatal[f.of]

IInv ==
    /\ TypeOK /\ SeenExist /\ FiledExist
    /\ HistoryIsAChain /\ VerdictWasGiven /\ UnracedIsInformed
    /\ ReadIsGiven /\ ShownIsSelected /\ FiledIsInformed

-----------------------------------------------------------------------------
(* What does not hold. *)

\* A review is about the evaluation on the screen: with the list filtered to
\* fatal findings, clearing one moves the selection under the detail.
FiledAsShown ==
    \A e \in Evaluations : \A i \in DOMAIN history[e] : history[e][i].view = "its_own"

\* Score and finding come from one review: of two that overlap, one may leave the
\* score and the other the finding.
OneReviewGaveBoth ==
    \A e \in Evaluations : history[e] # <<>> =>
        \E i \in DOMAIN history[e] :
            /\ reviewed[e] = history[e][i].score
            /\ status[e] = NewStatus(history[e][i])
=============================================================================
