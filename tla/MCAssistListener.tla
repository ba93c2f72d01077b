--------------------------- MODULE MCAssistListener ---------------------------
EXTENDS AssistListener, TLC

CONSTANTS ann, ann_s, ann_e, bob, bob_s, bob_e, ann_s_s, ann_s_e

OnePort == <<5050>>
TwoPorts == <<5050, 5051>>

\* Two callers and their helpers; ann's snoop channel may be taken for a call
\* and then has helpers of its own.
OneCaller == {ann, ann_s, ann_e}
DeepCaller == OneCaller \cup {ann_s_s, ann_s_e}
TwoCallers == OneCaller \cup {bob, bob_s, bob_e}

SnoopName(S) == [c \in S |-> IF c = ann THEN ann_s ELSE IF c = bob THEN bob_s
                             ELSE IF c = ann_s /\ ann_s_s \in S THEN ann_s_s ELSE NoChannel]
ExtMediaName(S) == [c \in S |-> IF c = ann THEN ann_e ELSE IF c = bob THEN bob_e
                                ELSE IF c = ann_s /\ ann_s_e \in S THEN ann_s_e ELSE NoChannel]

SnoopNames == SnoopName(Channels)
ExtMediaNames == ExtMediaName(Channels)
=============================================================================
