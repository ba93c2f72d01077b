SPECIFICATION Spec
CHECK_DEADLOCK FALSE
CONSTANTS
    Evaluations = {e1, e2}
    Reviewers = {me, r1}
    Consoles = {me}
    Scores = {low, high}
    NoScore = NoScore
    NoEval = NoEval
    MaxReviews = 3
SYMMETRY Symmetry
INVARIANT FiledAsShown
