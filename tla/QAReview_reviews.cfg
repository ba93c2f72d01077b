SPECIFICATION Spec
CHECK_DEADLOCK FALSE
CONSTANTS
    Evaluations = {e1, e2}
    Reviewers = {me, r1}
    Consoles = {me}
    Scores = {low, high}
    NoScore = NoScore
    NoEval = NoEval
    MaxReviews = 2
SYMMETRY Symmetry
INVARIANTS
    HistoryIsAChain
    VerdictWasGiven
    UnracedIsInformed
PROPERTY FatalChangesExplicitly
