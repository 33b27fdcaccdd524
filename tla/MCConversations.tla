-------------------------- MODULE MCConversations --------------------------
\* Instances of Conversations for TLC.
EXTENDS Conversations, TLC

CONSTANTS a, b, c

\* Two users who write to each other; one of them also writes to a third.
TwoUsers == {<<a, b>>, <<b, a>>}
ThreeUsers == TwoUsers \cup {<<a, c>>}

\* Requests are interchangeable.
Symmetry == Permutations(Worker)

Anything == BOOLEAN \X BOOLEAN
\* Overlapping requests and dying ones, in separate behaviours.
OneTrouble == Anything \ {<<TRUE, TRUE>>}
=============================================================================
