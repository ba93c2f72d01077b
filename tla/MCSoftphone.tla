----------------------------- MODULE MCSoftphone -----------------------------
EXTENDS Softphone, TLC
Symmetry == Permutations(Calls)

\* The state without the histories that a run's properties do not ask for.
Heard == <<deskVars, sipVars, refVars, recording, capture, rolling, transcript, unheeded,
           failed, ops>>
Kept == <<deskVars, sipVars, refVars, tapeVars, spoilt, ops>>

\* Requests about one call fail, and its end is not overlooked (a bound).
OneFails == Cardinality(failed) <= 1 /\ unheeded = {}
=============================================================================
